---- MODULE Spec2Model ----
(***************************************************************************)
(* Model of the resilience layer of ec_force_runner-service:               *)
(*   - CircuitBreaker  (src/src/utils/circuitBreaker.js)                   *)
(*   - BrowserPool     (src/unnamed/part_011, utils/browserPool.js)        *)
(*   - the crawler's composition of the two                                *)
(*     (src/src/services/crawler/EcForceOrderCrawler.js, BaseCrawler in    *)
(*      src/unnamed/part_002)                                              *)
(*                                                                         *)
(* Every action is the code that runs between two awaits of one async      *)
(* call: Node runs such a stretch without interleaving, and other calls    *)
(* interleave exactly at the awaits.  A command sent to Redis takes effect *)
(* in the step that issues it.                                             *)
(*                                                                         *)
(* Time is counted in units of 30 s, the breaker's work timeout, so the    *)
(* breaker's constants keep their proportions: TIMEOUT 30 s = 1,           *)
(* RESET_TIMEOUT 60 s = 2, the TTLs 60 s = 2, 300 s = 10, 3600 s = 120.    *)
(* Conversions between milliseconds and seconds (Math.ceil in              *)
(* setNextAttempt) act below this resolution.                              *)
(***************************************************************************)
EXTENDS Integers, Sequences, FiniteSets, TLC

\* ------------------------------------------------------------------------
\* Program constants
\* ------------------------------------------------------------------------
FAILURE_THRESHOLD == 5
SUCCESS_THRESHOLD == 2
TIMEOUT == 1
RESET_TIMEOUT == 2
STATE_TTL == 120
FAILURES_TTL == 10
SUCCESS_TTL == 2

\* ------------------------------------------------------------------------
\* Bounds of the model
\* ------------------------------------------------------------------------
\* The clock stops at MaxTime in the one-caller specification, and at
\* MaxTimeCB where calls run concurrently.
MaxTime == 13
MaxTimeCB == 3
MaxCallsCB == 2

\* Callers of execute(), and the replicas (processes) they run in.
Callers == {"c1", "c2", "c3"}
Replicas == {"r1", "r2"}
Keys == {"state", "failures", "success", "next"}

VARIABLES
  now,        \* Date.now()
  store,      \* the Redis keys circuit:<service>:<name>:{state,failures,success,next}
  redisUp,    \* per replica: this.redis is set and its commands are answered
  local,      \* per replica: localState, localFailureCount, localSuccessCount,
              \* localNextAttempt, lastError
  replicaOf,  \* the replica each caller runs in
  cpc,        \* per caller: the await of execute() it is suspended at
  cnt,        \* per caller: failureCount / successCount returned by the increment
  workStart,  \* per caller: when executeWithTimeout started its timer
  obs,        \* per caller: what the call observed (its outcome and entry conditions)
  calls,      \* per caller: the execute() calls it has made
  tripAt,     \* when the last opening by the threshold set nextAttempt (0: never)
  hist        \* the run of calls so far (kept where calls come one at a time)

\* The BrowserPool object, its instances, and its callers.
VARIABLES
  minInstances,     \* this.minInstances
  maxInstances,     \* this.maxInstances
  instanceTimeout,  \* this.instanceTimeout
  initialized,      \* this.initialized
  pool,             \* this.pool: the tracked instances (their ids are unique)
  available,        \* this.available: the idle list, popped from its end
  inUse,            \* this.inUse
  inst,             \* per instance: createdAt, usageCount, browser.isConnected()
  nextId,           \* the next instance createInstance makes
  openPages,        \* per instance: the callers whose page is open in its browser
  ppc,              \* per caller: the await of acquire() / release() it is suspended at
  pinst,            \* per caller: the local `instance` of its acquire() / release()
  pidx,             \* per caller: the loop counter of its initialize()
  held,             \* per caller: the browser acquire() returned to it
  acquires,         \* the acquire() calls made so far
  crashes,          \* the browser processes that died so far
  found,            \* per caller: the instance its acquire() found disconnected
  handed,           \* per caller: the last hand-off, and isConnected() at that moment
  spent,            \* instances released at their usage or age limit
  owed              \* per caller: blocked in acquire() while a release went through

\* One crawler execution per caller.
VARIABLES
  mpc,            \* per execution: where execute() and its controller are
  wpc,            \* per execution: where the work passed to the breaker is
  browser,        \* this.browser
  page,           \* this.page (the instance it was opened in)
  pooledBrowser,  \* this.pooledBrowser
  winst,          \* the instance the work's pending call acts on
  misused         \* per execution: the work started a step on an instance it had given back

cbVars == <<now, store, redisUp, local, replicaOf, cpc, cnt, workStart, obs, calls, tripAt, hist>>

cfgVars == <<minInstances, maxInstances, instanceTimeout>>

poolVars == <<cfgVars, initialized, pool, available, inUse, inst, nextId, openPages,
              ppc, pinst, pidx, held, acquires, crashes, found, handed, spent, owed>>

\* The steps inside an execution's workflow.
VARIABLES
  retry,          \* per execution: the withRetry call it is in (its loop and what it did)
  click,          \* per execution: the clickElement call it is in (its loop and what it did)
  rpc,            \* per execution: the step of run() that is pending
  submits         \* per execution: the times submitAndConfirmOrder was started

flowVars == <<retry, click, rpc, submits>>

\* A BaseService built on an account, and the request() made through it.
VARIABLES
  svc             \* the account's token, the locals of request(), and what the call did

crawlVars == <<mpc, wpc, browser, page, pooledBrowser, winst, misused, flowVars, svc>>

vars == <<cbVars, poolVars, crawlVars>>

\* ------------------------------------------------------------------------
\* Redis, as far as the breaker uses it
\* ------------------------------------------------------------------------
\* A key that does not exist.  has: the key exists; vol: it has an expiry.
NoKey(k) == [has |-> FALSE, val |-> IF k = "state" THEN "nil" ELSE 0, vol |-> FALSE, exp |-> 0]

\* SET key value EX ttl
RedisSetEx(st, k, v, ttl) ==
  [st EXCEPT ![k] = [has |-> TRUE, val |-> v, vol |-> TRUE, exp |-> now + ttl]]

\* INCR key: a missing key is created with value 1 and no expiry.
RedisIncr(st, k) ==
  IF st[k].has THEN [st EXCEPT ![k].val = @ + 1]
  ELSE [st EXCEPT ![k] = [has |-> TRUE, val |-> 1, vol |-> FALSE, exp |-> 0]]

\* EXPIRE key ttl
RedisExpire(st, k, ttl) ==
  IF st[k].has THEN [st EXCEPT ![k].vol = TRUE, ![k].exp = now + ttl] ELSE st

\* DEL key
RedisDel(st, k) == [st EXCEPT ![k] = NoKey(k)]

\* Keys whose expiry has passed at time t are gone.
RedisPurge(st, t) ==
  [k \in Keys |-> IF st[k].has /\ st[k].vol /\ st[k].exp <= t THEN NoKey(k) ELSE st[k]]

\* ------------------------------------------------------------------------
\* CircuitBreaker: the Redis operations (values they return)
\* ------------------------------------------------------------------------
\* Mutant of getState: the reply to GET is returned as it is (nil for a
\* missing key).
getState_Raw(r) ==
  IF ~redisUp[r] THEN local[r].localState ELSE store["state"].val

getState(r) ==
  IF ~redisUp[r] THEN local[r].localState
  ELSE IF store["state"].has THEN store["state"].val ELSE "CLOSED"

getFailureCount(r) ==
  IF ~redisUp[r] THEN local[r].localFailureCount
  ELSE IF store["failures"].has THEN store["failures"].val ELSE 0

\* parseInt(next) || Date.now(): a missing key and a stored 0 both give now.
getNextAttempt(r) ==
  IF ~redisUp[r] THEN local[r].localNextAttempt
  ELSE IF store["next"].has /\ store["next"].val # 0 THEN store["next"].val ELSE now

\* open() asks for Date.now() + this.resetTimeout
NextAttemptFrom(t) == t + RESET_TIMEOUT

\* this.localFailureCount++ / this.localSuccessCount++.  The code only compares
\* a count with its threshold, so counts above the threshold are kept as one
\* value.
Bump(n, threshold) == IF n > threshold THEN n ELSE n + 1

\* Mutants of ShouldOpen: the threshold compared with >, and the HALF_OPEN
\* case dropped.
ShouldOpen_AboveThreshold(state, failureCount) ==
  state = "HALF_OPEN" \/ failureCount > FAILURE_THRESHOLD

ShouldOpen_CountOnly(state, failureCount) == failureCount >= FAILURE_THRESHOLD

\* onFailure's decision to open, from the state it read and the count it got
ShouldOpen(state, failureCount) ==
  state = "HALF_OPEN" \/ failureCount >= FAILURE_THRESHOLD

\* Mutants of ShouldClose: the closing branch left out, and the threshold
\* compared with >.
ShouldClose_Never(successCount) == FALSE

ShouldClose_AboveThreshold(successCount) == successCount > SUCCESS_THRESHOLD

\* onSuccess's decision to close, from the count incrementSuccess returned
ShouldClose(successCount) == successCount >= SUCCESS_THRESHOLD

\* ------------------------------------------------------------------------
\* CircuitBreaker.execute, one action per await
\* ------------------------------------------------------------------------
\* The opening's window: an opening by the threshold has completed and its
\* nextAttempt has not been reached.
InWindow == tripAt > 0 /\ now < tripAt + RESET_TIMEOUT

\* What a call has observed when it starts.
NoObs == [result |-> "none", err |-> "none", wasOpen |-> FALSE, due |-> FALSE,
          enteredHot |-> FALSE, hot |-> FALSE, failHalf |-> FALSE, failAt |-> 0,
          fromClosed |-> FALSE, setAt |-> 0, recorded |-> 0]

\* The run of calls is recorded only where hist.on says so.
Kept(h) == IF hist.on THEN h ELSE hist

\* Mutants of Finish: the error of a rejected Redis command is thrown to the
\* caller; a failure of the work is absorbed.
Finish_Rethrows(c, res) ==
  [obs EXCEPT ![c].result = IF redisUp[replicaOf[c]] THEN res ELSE "REDIS_ERROR"]

Finish_Absorbs(c, res) == [obs EXCEPT ![c].result = "ok"]

\* execute() returns or throws: the caller is free for its next call.
Finish(c, res) ==
  IF hist.on THEN [obs EXCEPT ![c].result = res]
  ELSE [obs EXCEPT ![c] = [NoObs EXCEPT !.result = res,
                                        !.enteredHot = obs[c].enteredHot,
                                        !.hot = obs[c].hot,
                                        !.err = obs[c].err,
                                        !.recorded = obs[c].recorded]]

\* The wrapped work is invoked (executeWithTimeout starts fn and the timer).
Invoke(c) ==
  /\ cpc' = [cpc EXCEPT ![c] = "work"]
  /\ workStart' = [workStart EXCEPT ![c] = now]

\* execute: const state = await this.getState(); the work is invoked at once
\* unless the state is OPEN.
ExecGetState(c) ==
  LET r == replicaOf[c]
      s == getState(r)
  IN /\ cpc[c] = "idle"
     /\ obs' = [obs EXCEPT ![c] =
                  [result |-> "none", err |-> "none",
                   wasOpen |-> (s = "OPEN"),
                   due |-> (s = "OPEN" /\ now >= hist.next),
                   enteredHot |-> InWindow,
                   hot |-> (s # "OPEN" /\ InWindow),
                   failHalf |-> FALSE, failAt |-> 0,
                   fromClosed |-> FALSE, setAt |-> 0, recorded |-> 0]]
     /\ IF s = "OPEN"
        THEN /\ cpc' = [cpc EXCEPT ![c] = "getNextAttempt"]
             /\ UNCHANGED workStart
        ELSE Invoke(c)
     /\ UNCHANGED <<tripAt, now, store, redisUp, poolVars, crawlVars, local, replicaOf, cnt, hist>>

\* execute: const nextAttempt = await this.getNextAttempt();
\* if (Date.now() < nextAttempt) throw CIRCUIT_OPEN
ExecGetNextAttempt(c) ==
  LET r == replicaOf[c]
      nextAttempt == getNextAttempt(r)
  IN /\ cpc[c] = "getNextAttempt"
     /\ IF now < nextAttempt
        THEN /\ cpc' = [cpc EXCEPT ![c] = "idle"]
             /\ obs' = Finish(c, "CIRCUIT_OPEN")
             /\ hist' = Kept([hist EXCEPT !.streak = -1])
        ELSE /\ cpc' = [cpc EXCEPT ![c] = "setHalfOpen"]
             /\ UNCHANGED <<obs, hist>>
     /\ UNCHANGED <<calls, tripAt, now, store, redisUp, poolVars, crawlVars, local, replicaOf, cnt, workStart>>

\* setState(state): the local copy, then SET state EX 3600
setState(c, state) ==
  LET r == replicaOf[c]
  IN /\ local' = [local EXCEPT ![r].localState = state]
     /\ store' = IF redisUp[r] THEN RedisSetEx(store, "state", state, STATE_TTL) ELSE store

\* execute: await this.setState(HALF_OPEN); then the work is invoked.
ExecSetHalfOpen(c) ==
  /\ cpc[c] = "setHalfOpen"
  /\ setState(c, "HALF_OPEN")
  /\ Invoke(c)
  /\ obs' = [obs EXCEPT ![c].hot = obs[c].enteredHot /\ InWindow]
  /\ hist' = Kept([hist EXCEPT !.streak = -1, !.probes = 0])
  /\ UNCHANGED <<calls, tripAt, now, redisUp, poolVars, crawlVars, replicaOf, cnt>>

\* The work returns before the timer fires: onSuccess starts.
WorkReturns(c) ==
  /\ cpc[c] = "work"
  /\ cpc' = [cpc EXCEPT ![c] = "resetFailures"]
  /\ workStart' = [workStart EXCEPT ![c] = 0]
  /\ UNCHANGED <<calls, tripAt, now, store, redisUp, poolVars, crawlVars, local, replicaOf, cnt, obs, hist>>

\* The work throws, or the timer of executeWithTimeout fires first:
\* onFailure starts with that error.
WorkFails(c, err) ==
  /\ cpc[c] = "work"
  /\ err = "CIRCUIT_TIMEOUT" => now >= workStart[c] + TIMEOUT
  /\ cpc' = [cpc EXCEPT ![c] = "incrementFailures"]
  /\ obs' = [obs EXCEPT ![c].err = err,
                        ![c].failHalf = (getState(replicaOf[c]) = "HALF_OPEN"),
                        ![c].failAt = now]
  /\ workStart' = [workStart EXCEPT ![c] = 0]
  /\ UNCHANGED <<calls, tripAt, now, store, redisUp, poolVars, crawlVars, local, replicaOf, cnt, hist>>

\* onSuccess: await this.resetFailures()   (local count 0, DEL failures)
SuccResetFailures(c) ==
  LET r == replicaOf[c]
  IN /\ cpc[c] = "resetFailures"
     /\ local' = [local EXCEPT ![r].localFailureCount = 0]
     /\ store' = IF redisUp[r] THEN RedisDel(store, "failures") ELSE store
     /\ cpc' = [cpc EXCEPT ![c] = "succGetState"]
     /\ UNCHANGED <<calls, tripAt, now, redisUp, poolVars, crawlVars, replicaOf, cnt, workStart, obs, hist>>

\* onSuccess: this.lastError = null; const state = await this.getState();
\* nothing more unless HALF_OPEN
SuccGetState(c) ==
  LET r == replicaOf[c]
      s == getState(r)
  IN /\ cpc[c] = "succGetState"
     /\ local' = [local EXCEPT ![r].lastError = "none"]
     /\ IF s = "HALF_OPEN"
        THEN /\ cpc' = [cpc EXCEPT ![c] = "incrementSuccess"]
             /\ UNCHANGED <<obs, hist>>
        ELSE /\ cpc' = [cpc EXCEPT ![c] = "idle"]
             /\ obs' = Finish(c, "ok")
             /\ hist' = Kept([hist EXCEPT !.streak = IF s = "CLOSED" THEN 0 ELSE -1,
                                          !.probes = 0])
     /\ UNCHANGED <<calls, tripAt, now, store, redisUp, poolVars, crawlVars, replicaOf, cnt, workStart>>

\* After incrementSuccess returned successCount: close at the threshold,
\* otherwise onSuccess and execute return.
AfterIncrementSuccess(c, successCount) ==
  IF ShouldClose(successCount)
  THEN /\ cpc' = [cpc EXCEPT ![c] = "setClosed"]
       /\ UNCHANGED obs
  ELSE /\ cpc' = [cpc EXCEPT ![c] = "idle"]
       /\ obs' = Finish(c, "ok")

\* A probe success is counted: how many in a row, and whether each came
\* less than the success key's TTL after the one before.
ProbeCounted ==
  [hist EXCEPT !.probes = IF @ <= SUCCESS_THRESHOLD THEN @ + 1 ELSE @,
               !.probesFresh = (hist.probes = 0) \/ (@ /\ now - hist.lastProbeAt < SUCCESS_TTL),
               !.lastProbeAt = now,
               !.streak = -1]

\* incrementSuccess: this.localSuccessCount++; INCR success
\* (without Redis it returns the local count at once)
SuccIncrement(c) ==
  LET r == replicaOf[c]
  IN /\ cpc[c] = "incrementSuccess"
     /\ local' = [local EXCEPT ![r].localSuccessCount = Bump(@, SUCCESS_THRESHOLD)]
     /\ hist' = Kept(ProbeCounted)
     /\ IF redisUp[r]
        THEN /\ store' = RedisIncr(store, "success")
             /\ cnt' = [cnt EXCEPT ![c] = store'["success"].val]
             /\ cpc' = [cpc EXCEPT ![c] = "expireSuccess"]
             /\ UNCHANGED obs
        ELSE /\ cnt' = [cnt EXCEPT ![c] = local'[r].localSuccessCount]
             /\ AfterIncrementSuccess(c, cnt'[c])
             /\ UNCHANGED store
     /\ UNCHANGED <<calls, tripAt, now, redisUp, poolVars, crawlVars, replicaOf, workStart>>

\* incrementSuccess: EXPIRE success 60; return count (the catch returns the
\* local count where the command is rejected)
SuccExpire(c) ==
  LET r == replicaOf[c]
  IN /\ cpc[c] = "expireSuccess"
     /\ store' = IF redisUp[r] THEN RedisExpire(store, "success", SUCCESS_TTL) ELSE store
     /\ cnt' = IF redisUp[r] THEN cnt ELSE [cnt EXCEPT ![c] = local[r].localSuccessCount]
     /\ AfterIncrementSuccess(c, cnt'[c])
     /\ UNCHANGED <<calls, tripAt, now, redisUp, poolVars, crawlVars, local, replicaOf, workStart, hist>>

\* onSuccess: await this.setState(CLOSED)
SuccSetClosed(c) ==
  /\ cpc[c] = "setClosed"
  /\ setState(c, "CLOSED")
  /\ cpc' = [cpc EXCEPT ![c] = "closeResetSuccess"]
  /\ UNCHANGED <<calls, tripAt, now, redisUp, poolVars, crawlVars, replicaOf, cnt, workStart, obs, hist>>

\* resetSuccess(): local count 0, DEL success
resetSuccess(c) ==
  LET r == replicaOf[c]
  IN /\ local' = [local EXCEPT ![r].localSuccessCount = 0]
     /\ store' = IF redisUp[r] THEN RedisDel(store, "success") ELSE store

\* onSuccess: await this.resetSuccess(); execute returns the result
SuccResetSuccess(c) ==
  /\ cpc[c] = "closeResetSuccess"
  /\ resetSuccess(c)
  /\ cpc' = [cpc EXCEPT ![c] = "idle"]
  /\ obs' = Finish(c, "ok")
  /\ UNCHANGED <<calls, tripAt, now, redisUp, poolVars, crawlVars, replicaOf, cnt, workStart, hist>>

\* A work failure is counted: the streak since CLOSED with counter 0, and
\* whether each failure came less than the failures key's TTL after the one
\* before.
FailureCounted ==
  [hist EXCEPT !.streak = IF @ >= 0 /\ @ < FAILURE_THRESHOLD THEN @ + 1 ELSE -1,
               !.fresh = (hist.streak = 0) \/ (@ /\ now - hist.lastFailAt < FAILURES_TTL),
               !.lastFailAt = now,
               !.probes = 0]

\* Mutant of incrCount: each replica counts its own failures.
incrCount_Local(r, st) == local[r].localFailureCount + 1

\* incrementFailures: const count = await this.redis.incr(<prefix>:failures)
incrCount(r, st) == st["failures"].val

\* incrementFailures: this.localFailureCount++; INCR failures
\* (without Redis it returns the local count at once)
FailIncrement(c) ==
  LET r == replicaOf[c]
  IN /\ cpc[c] = "incrementFailures"
     /\ local' = [local EXCEPT ![r].localFailureCount = Bump(@, FAILURE_THRESHOLD)]
     /\ hist' = Kept([FailureCounted EXCEPT !.lastErr = obs[c].err])
     /\ obs' = [obs EXCEPT ![c].recorded = @ + 1]
     /\ IF redisUp[r]
        THEN /\ store' = RedisIncr(store, "failures")
             /\ cnt' = [cnt EXCEPT ![c] = incrCount(r, store')]
             /\ cpc' = [cpc EXCEPT ![c] = "expireFailures"]
        ELSE /\ cnt' = [cnt EXCEPT ![c] = local'[r].localFailureCount]
             /\ cpc' = [cpc EXCEPT ![c] = "failGetState"]
             /\ UNCHANGED store
     /\ UNCHANGED <<calls, tripAt, now, redisUp, poolVars, crawlVars, replicaOf, workStart>>

\* incrementFailures: EXPIRE failures 300; return count (the catch returns
\* the local count where the command is rejected)
FailExpire(c) ==
  LET r == replicaOf[c]
  IN /\ cpc[c] = "expireFailures"
     /\ store' = IF redisUp[r] THEN RedisExpire(store, "failures", FAILURES_TTL) ELSE store
     /\ cnt' = IF redisUp[r] THEN cnt ELSE [cnt EXCEPT ![c] = local[r].localFailureCount]
     /\ cpc' = [cpc EXCEPT ![c] = "failGetState"]
     /\ UNCHANGED <<calls, tripAt, now, redisUp, poolVars, crawlVars, local, replicaOf, workStart, obs, hist>>

\* onFailure: this.lastError = error.message; const state = await
\* this.getState(); open() if HALF_OPEN or failureCount >= failureThreshold,
\* otherwise execute rethrows the error.
FailGetState(c) ==
  LET r == replicaOf[c]
      s == getState(r)
  IN /\ cpc[c] = "failGetState"
     /\ local' = [local EXCEPT ![r].lastError = obs[c].err]
     /\ IF ShouldOpen(s, cnt[c])
        THEN /\ cpc' = [cpc EXCEPT ![c] = "openSetState"]
             /\ obs' = [obs EXCEPT ![c].fromClosed = (s = "CLOSED")]
        ELSE /\ cpc' = [cpc EXCEPT ![c] = "idle"]
             /\ obs' = Finish(c, obs[c].err)
     /\ UNCHANGED <<calls, tripAt, now, store, redisUp, poolVars, crawlVars, replicaOf, cnt, workStart, hist>>

\* open: await this.setState(OPEN)
OpenSetState(c) ==
  /\ cpc[c] = "openSetState"
  /\ setState(c, "OPEN")
  /\ cpc' = [cpc EXCEPT ![c] = "setNextAttempt"]
  /\ UNCHANGED <<calls, tripAt, now, redisUp, poolVars, crawlVars, replicaOf, cnt, workStart, obs, hist>>

\* setNextAttempt(timestamp): the local copy, then SET next EX ttl if ttl > 0
setNextAttempt(c, timestamp) ==
  LET r == replicaOf[c]
      ttl == timestamp - now
  IN /\ local' = [local EXCEPT ![r].localNextAttempt = timestamp]
     /\ store' = IF redisUp[r] /\ ttl > 0
                 THEN RedisSetEx(store, "next", timestamp, ttl) ELSE store

\* open: await this.setNextAttempt(Date.now() + this.resetTimeout)
OpenSetNextAttempt(c) ==
  /\ cpc[c] = "setNextAttempt"
  /\ setNextAttempt(c, NextAttemptFrom(now))
  /\ cpc' = [cpc EXCEPT ![c] = "openResetSuccess"]
  /\ obs' = [obs EXCEPT ![c].setAt = now]
  /\ hist' = Kept([hist EXCEPT !.next = NextAttemptFrom(now)])
  /\ UNCHANGED <<calls, tripAt, now, redisUp, poolVars, crawlVars, replicaOf, cnt, workStart>>

\* open: await this.resetSuccess(); onFailure returns and execute rethrows
OpenResetSuccess(c) ==
  /\ cpc[c] = "openResetSuccess"
  /\ resetSuccess(c)
  /\ cpc' = [cpc EXCEPT ![c] = "idle"]
  /\ obs' = Finish(c, obs[c].err)
  /\ tripAt' = IF obs[c].fromClosed THEN obs[c].setAt ELSE tripAt
  /\ UNCHANGED <<calls, now, redisUp, poolVars, crawlVars, replicaOf, cnt, workStart, hist>>

\* ------------------------------------------------------------------------
\* The clock
\* ------------------------------------------------------------------------
\* A timer that is due fires before the clock moves on.
TimerDue == \E c \in Callers : cpc[c] = "work" /\ now >= workStart[c] + TIMEOUT

\* A round trip to Redis is short against the time unit: the clock moves
\* only while every call is idle or waits for its work.
MidCall ==
  \/ \E c \in Callers : cpc[c] \notin {"idle", "work"}
  \/ \E c \in Callers : ppc[c] \notin {"idle", "holding", "wait"}

\* Time passes; Redis drops the keys whose expiry is reached.
Tick(limit) ==
  /\ now < limit
  /\ ~TimerDue
  /\ ~MidCall
  /\ now' = now + 1
  /\ store' = RedisPurge(store, now')
  /\ UNCHANGED <<calls, tripAt, redisUp, poolVars, crawlVars, local, replicaOf, cpc, cnt, workStart, obs, hist>>

\* ------------------------------------------------------------------------
\* BrowserPool: constants, bounds and instances
\* ------------------------------------------------------------------------
MIN_INSTANCES == 1
MAX_USAGE_COUNT == 100

\* The pool is configured through the constructor's options: at most
\* MaxInstancesCfg instances, retired after InstanceTimeoutCfg time units.
MaxInstancesCfg == 2
InstanceTimeoutCfg == 1
\* The callers make at most MaxAcquires calls of acquire() between them;
\* the clock of the pool's specifications stops at MaxTimePool.
MaxAcquires == 3
MaxTimePool == 3
\* At most MaxCrashes browser processes die.
MaxCrashes == 1

\* An acquire() creates at most minInstances + 1 instances and a release()
\* at most one, so createInstance never runs out of ids.
MaxInst == 1 + (MIN_INSTANCES + 2) * MaxAcquires

Instances == 1 .. MaxInst

\* No instance, no browser: undefined / null.
None == 0

\* createInstance: a launched browser, never used.
NewInstance == [createdAt |-> now, usageCount |-> 0, connected |-> TRUE]

\* An id createInstance has not made yet, or a browser that was closed.
NoInstance == [createdAt |-> 0, usageCount |-> 0, connected |-> FALSE]

NoHand == [inst |-> None, live |-> TRUE, fresh |-> FALSE, gone |-> FALSE, stray |-> FALSE]

\* Mutant of isConnected: the liveness check left out.
isConnected_Assumed(instance) == TRUE

\* instance.browser.isConnected()
isConnected(instance) == instance.connected

\* release: age > this.instanceTimeout || usageCount > MAX_USAGE_COUNT
shouldRetire(instance) ==
  \/ now - instance.createdAt > instanceTimeout
  \/ instance.usageCount > MAX_USAGE_COUNT

\* The instance has reached its usage or age limit.
AtLimit(instance) ==
  \/ now - instance.createdAt >= instanceTimeout
  \/ instance.usageCount >= MAX_USAGE_COUNT

\* array.filter(inst => inst.id !== instance.id)
Without(list, i) == SelectSeq(list, LAMBDA x : x # i)

Idle == {available[k] : k \in 1 .. Len(available)}

\* The callers blocked in waitForAvailable while instance i, one of
\* maxInstances or more in use, is given back.
MarkOwed(i) ==
  [w \in Callers |-> owed[w] \/ (/\ ppc[w] = "wait"
                                /\ i \in inUse
                                /\ Cardinality(inUse) >= maxInstances)]

\* ------------------------------------------------------------------------
\* BrowserPool.acquire, one action per await
\* ------------------------------------------------------------------------
\* acquire, lines 110-116: mark in use, count the use, return the browser.
HandOff(c, i, instances) ==
  /\ inUse' = inUse \cup {i}
  /\ inst' = [instances EXCEPT ![i].usageCount = @ + 1]
  /\ held' = [held EXCEPT ![c] = i]
  /\ ppc' = [ppc EXCEPT ![c] = "holding"]
  /\ handed' = [handed EXCEPT ![c] = [inst |-> i, live |-> instances[i].connected,
                                      fresh |-> instances[i].usageCount = 0,
                                      gone |-> instances[i].createdAt = 0,
                                      stray |-> FALSE]]
  /\ owed' = [owed EXCEPT ![c] = FALSE]

\* acquire, lines 102-116: the liveness check on the instance it got; a
\* disconnected instance is removed (await) and replaced (await).
Checked(c, i, instances) ==
  IF isConnected(instances[i])
  THEN /\ HandOff(c, i, instances)
       /\ found' = [found EXCEPT ![c] = None]
       /\ UNCHANGED pinst
  ELSE /\ ppc' = [ppc EXCEPT ![c] = "removeClose"]
       /\ pinst' = [pinst EXCEPT ![c] = i]
       /\ found' = [found EXCEPT ![c] = i]
       /\ handed' = [handed EXCEPT ![c] = NoHand]
       /\ inst' = instances
       /\ UNCHANGED <<inUse, held, owed>>

\* acquire, lines 87-100: pop an idle instance, or create one below
\* maxInstances (await), or wait for one (await).
TakeInstance(c) ==
  IF available # <<>>
  THEN /\ available' = SubSeq(available, 1, Len(available) - 1)
       /\ Checked(c, available[Len(available)], inst)
  ELSE /\ ppc' = [ppc EXCEPT ![c] =
                    IF Cardinality(pool) < maxInstances THEN "create" ELSE "wait"]
       /\ found' = [found EXCEPT ![c] = None]
       /\ handed' = [handed EXCEPT ![c] = NoHand]
       /\ UNCHANGED <<available, pinst, inUse, inst, held, owed>>

\* acquire() is called.  An uninitialized pool is initialized first:
\* initialize() starts its first launch (minInstances is at least 1, a
\* falsy option being replaced by MIN_INSTANCES).
AcquireCall(c) ==
  /\ ppc[c] = "idle"
  /\ acquires < MaxAcquires
  /\ acquires' = acquires + 1
  /\ IF initialized
     THEN TakeInstance(c) /\ UNCHANGED pidx
     ELSE /\ ppc' = [ppc EXCEPT ![c] = "initLaunch"]
          /\ pidx' = [pidx EXCEPT ![c] = 0]
          /\ found' = [found EXCEPT ![c] = None]
          /\ handed' = [handed EXCEPT ![c] = NoHand]
          /\ UNCHANGED <<available, pinst, inUse, inst, held, owed>>
  /\ UNCHANGED <<cfgVars, initialized, pool, nextId, openPages, crashes, spent, cbVars>>

\* initialize: a launch of its loop resolves; the instance is pushed on pool
\* and available, and the loop launches the next or sets initialized.
InitLaunched(c) ==
  /\ ppc[c] = "initLaunch"
  /\ nextId <= MaxInst
  /\ inst' = [inst EXCEPT ![nextId] = NewInstance]
  /\ pool' = pool \cup {nextId}
  /\ available' = Append(available, nextId)
  /\ nextId' = nextId + 1
  /\ IF pidx[c] + 1 < minInstances
     THEN /\ pidx' = [pidx EXCEPT ![c] = @ + 1]
          /\ UNCHANGED <<ppc, initialized>>
     ELSE /\ pidx' = [pidx EXCEPT ![c] = 0]
          /\ initialized' = TRUE
          /\ ppc' = [ppc EXCEPT ![c] = "afterInit"]
  /\ UNCHANGED <<cfgVars, inUse, openPages, pinst, held, acquires, crashes, found, handed,
                 spent, owed, cbVars>>

\* acquire resumes after await this.initialize().
AcquireAfterInit(c) ==
  /\ ppc[c] = "afterInit"
  /\ TakeInstance(c)
  /\ UNCHANGED <<cfgVars, initialized, pool, nextId, openPages, pidx, acquires, crashes,
                 spent, cbVars>>

\* acquire, lines 92-116: createInstance resolves; the instance is pushed on
\* pool, passes the liveness check and is handed off.
AcquireCreated(c) ==
  /\ ppc[c] = "create"
  /\ nextId <= MaxInst
  /\ pool' = pool \cup {nextId}
  /\ nextId' = nextId + 1
  /\ Checked(c, nextId, [inst EXCEPT ![nextId] = NewInstance])
  /\ UNCHANGED <<cfgVars, initialized, available, openPages, pidx, acquires, crashes,
                 spent, cbVars>>

\* waitForAvailable: the interval timer finds an idle instance; acquire
\* resumes with it.
Poll(c) ==
  /\ ppc[c] = "wait"
  /\ available # <<>>
  /\ available' = SubSeq(available, 1, Len(available) - 1)
  /\ Checked(c, available[Len(available)], inst)
  /\ UNCHANGED <<cfgVars, initialized, pool, nextId, openPages, pidx, acquires, crashes,
                 spent, cbVars>>

\* removeInstance, after await instance.browser.close() (its error is
\* caught): the instance leaves pool, available and inUse.
Removed(i) ==
  /\ inst' = [inst EXCEPT ![i] = NoInstance]
  /\ pool' = pool \ {i}
  /\ available' = Without(available, i)
  /\ inUse' = inUse \ {i}
  /\ openPages' = [openPages EXCEPT ![i] = {}]

\* acquire, lines 105-106: the disconnected instance is removed; the
\* replacement is being created.
RemoveClosed(c) ==
  /\ ppc[c] = "removeClose"
  /\ Removed(pinst[c])
  /\ ppc' = [ppc EXCEPT ![c] = "recreate"]
  /\ UNCHANGED <<cfgVars, initialized, nextId, pinst, pidx, held, acquires, crashes, found,
                 handed, spent, owed, cbVars>>

\* acquire, lines 106-116: the replacement is pushed on pool and handed off.
Recreated(c) ==
  /\ ppc[c] = "recreate"
  /\ nextId <= MaxInst
  /\ pool' = pool \cup {nextId}
  /\ nextId' = nextId + 1
  /\ HandOff(c, nextId, [inst EXCEPT ![nextId] = NewInstance])
  /\ pinst' = [pinst EXCEPT ![c] = None]
  /\ UNCHANGED <<cfgVars, initialized, available, openPages, pidx, acquires, crashes, found,
                 spent, cbVars>>

\* ------------------------------------------------------------------------
\* BrowserPool.release, one action per await
\* ------------------------------------------------------------------------
\* Mutant of Tracked: release does not look the browser up.
Tracked_Any(i) == TRUE

\* release: this.pool.find(inst => inst.browser === browser)
Tracked(i) == i \in pool

\* release(browser) is called: the instance is looked up; an instance over
\* its age or usage limit is retired (await removeInstance), another has its
\* pages listed (await browser.pages()).
ReleaseCall(c) ==
  /\ ppc[c] = "holding"
  /\ held' = [held EXCEPT ![c] = None]
  /\ found' = [found EXCEPT ![c] = None]
  /\ handed' = [handed EXCEPT ![c] = [NoHand EXCEPT !.stray = held[c] \notin pool]]
  /\ IF ~Tracked(held[c])
     THEN /\ ppc' = [ppc EXCEPT ![c] = "idle"]
          /\ UNCHANGED <<pinst, spent>>
     ELSE /\ ppc' = [ppc EXCEPT ![c] =
                       IF shouldRetire(inst[held[c]]) THEN "retireClose" ELSE "pages"]
          /\ pinst' = [pinst EXCEPT ![c] = held[c]]
          /\ spent' = IF AtLimit(inst[held[c]]) THEN spent \cup {held[c]} ELSE spent
  /\ UNCHANGED <<cfgVars, initialized, pool, available, inUse, inst, nextId, openPages,
                 pidx, acquires, crashes, owed, cbVars>>

\* release, lines 138-145: the retired instance is removed; a replacement is
\* created only if the pool fell below minInstances.
RetireClosed(c) ==
  /\ ppc[c] = "retireClose"
  /\ Removed(pinst[c])
  /\ owed' = MarkOwed(pinst[c])
  /\ IF Cardinality(pool') < minInstances
     THEN /\ ppc' = [ppc EXCEPT ![c] = "replace"]
          /\ UNCHANGED pinst
     ELSE /\ ppc' = [ppc EXCEPT ![c] = "idle"]
          /\ pinst' = [pinst EXCEPT ![c] = None]
  /\ UNCHANGED <<cfgVars, initialized, nextId, pidx, held, acquires, crashes, found, handed,
                 spent, cbVars>>

\* release, lines 142-144: the replacement is pushed on pool and available.
Replaced(c) ==
  /\ ppc[c] = "replace"
  /\ nextId <= MaxInst
  /\ inst' = [inst EXCEPT ![nextId] = NewInstance]
  /\ pool' = pool \cup {nextId}
  /\ available' = Append(available, nextId)
  /\ nextId' = nextId + 1
  /\ ppc' = [ppc EXCEPT ![c] = "idle"]
  /\ pinst' = [pinst EXCEPT ![c] = None]
  /\ UNCHANGED <<cfgVars, initialized, inUse, openPages, pidx, held, acquires, crashes, found,
                 handed, spent, owed, cbVars>>

\* release, lines 148-156: the pages beyond the first are closed; the
\* instance leaves inUse and is pushed on available.
PagesDone(c) ==
  /\ ppc[c] = "pages"
  /\ owed' = MarkOwed(pinst[c])
  /\ openPages' = [openPages EXCEPT ![pinst[c]] = {}]
  /\ inUse' = inUse \ {pinst[c]}
  /\ available' = Append(available, pinst[c])
  /\ ppc' = [ppc EXCEPT ![c] = "idle"]
  /\ pinst' = [pinst EXCEPT ![c] = None]
  /\ UNCHANGED <<cfgVars, initialized, pool, inst, nextId, pidx, held, acquires, crashes,
                 found, handed, spent, cbVars>>

\* release, lines 148-151: on a disconnected browser pages() or close() may
\* reject; release throws and the instance stays in inUse.
PagesFails(c) ==
  /\ ppc[c] = "pages"
  /\ ~inst[pinst[c]].connected
  /\ ppc' = [ppc EXCEPT ![c] = "idle"]
  /\ pinst' = [pinst EXCEPT ![c] = None]
  /\ UNCHANGED <<cfgVars, initialized, pool, available, inUse, inst, nextId,
                 openPages, pidx, held, acquires, crashes, found, handed, spent, owed, cbVars>>

\* The browser process of a tracked instance dies.
Crash(i) ==
  /\ i \in pool
  /\ inst[i].connected
  /\ crashes < MaxCrashes
  /\ crashes' = crashes + 1
  /\ inst' = [inst EXCEPT ![i].connected = FALSE]
  /\ UNCHANGED <<cfgVars, initialized, pool, available, inUse, nextId, openPages,
                 ppc, pinst, pidx, held, acquires, found, handed, spent, owed, cbVars>>

\* The steps of acquire() and release() that the pool takes by itself once
\* the call is made.
PoolStep(c) ==
  \/ InitLaunched(c)
  \/ AcquireAfterInit(c)
  \/ AcquireCreated(c)
  \/ Poll(c)
  \/ RemoveClosed(c)
  \/ Recreated(c)
  \/ RetireClosed(c)
  \/ Replaced(c)
  \/ PagesDone(c)
  \/ PagesFails(c)

\* ------------------------------------------------------------------------
\* Initial state: the breaker as constructed
\* ------------------------------------------------------------------------
\* The constructor's local copy: CLOSED, counters 0, localNextAttempt = Date.now()
NewBreaker == [localState |-> "CLOSED", localFailureCount |-> 0,
               localSuccessCount |-> 0, localNextAttempt |-> 1, lastError |-> "none"]

NoHist == [streak |-> 0, fresh |-> TRUE, lastFailAt |-> 0, lastErr |-> "none",
           probes |-> 0, probesFresh |-> TRUE, lastProbeAt |-> 0,
           next |-> 1, on |-> TRUE]

InitBreaker ==
  /\ now = 1
  /\ store = [k \in Keys |-> NoKey(k)]
  /\ local = [r \in Replicas |-> NewBreaker]
  /\ cpc = [c \in Callers |-> "idle"]
  /\ cnt = [c \in Callers |-> 0]
  /\ workStart = [c \in Callers |-> 0]
  /\ obs = [c \in Callers |-> NoObs]
  /\ calls = [c \in Callers |-> 0]
  /\ tripAt = 0
  /\ hist = NoHist

\* One step of the breaker's own code in caller c's execute()
BreakerStep(c) ==
  \/ ExecGetNextAttempt(c)
  \/ ExecSetHalfOpen(c)
  \/ SuccResetFailures(c)
  \/ SuccGetState(c)
  \/ SuccIncrement(c)
  \/ SuccExpire(c)
  \/ SuccSetClosed(c)
  \/ SuccResetSuccess(c)
  \/ FailIncrement(c)
  \/ FailExpire(c)
  \/ FailGetState(c)
  \/ OpenSetState(c)
  \/ OpenSetNextAttempt(c)
  \/ OpenResetSuccess(c)

\* One step of caller c's execute(), once it has been called: the breaker's
\* own, or the outcome of the work, which may be any.
ExecuteStep(c) ==
  \/ BreakerStep(c)
  \/ WorkReturns(c)
  \/ \E err \in {"error", "CIRCUIT_TIMEOUT"} : WorkFails(c, err)

\* ------------------------------------------------------------------------
\* Initial states of the pool and of the crawler executions
\* ------------------------------------------------------------------------
\* The constructor's options: minInstances left at its default.
PoolConfig(max) ==
  /\ minInstances = MIN_INSTANCES
  /\ maxInstances = max
  /\ instanceTimeout = InstanceTimeoutCfg

PoolCallersIdle ==
  /\ openPages = [i \in Instances |-> {}]
  /\ ppc = [c \in Callers |-> "idle"]
  /\ pinst = [c \in Callers |-> None]
  /\ pidx = [c \in Callers |-> 0]
  /\ held = [c \in Callers |-> None]
  /\ acquires = 0
  /\ crashes = 0
  /\ found = [c \in Callers |-> None]
  /\ handed = [c \in Callers |-> NoHand]
  /\ spent = {}
  /\ owed = [c \in Callers |-> FALSE]

\* The pool as constructed.
NewPool ==
  /\ PoolCallersIdle
  /\ initialized = FALSE
  /\ pool = {}
  /\ available = <<>>
  /\ inUse = {}
  /\ inst = [i \in Instances |-> NoInstance]
  /\ nextId = 1

\* The pool after initialize() and `used` acquire/release rounds on its
\* first instance.
StartedPool(used, connected) ==
  /\ PoolCallersIdle
  /\ initialized = TRUE
  /\ pool = {1}
  /\ available = <<1>>
  /\ inUse = {}
  /\ inst = [i \in Instances |->
               IF i = 1 THEN [createdAt |-> 1, usageCount |-> used, connected |-> connected]
               ELSE NoInstance]
  /\ nextId = 2

\* `undefined`: a variable that was never assigned.
Undefined == "undefined"

\* No withRetry call has been made.
NoRetry ==
  [pc |-> "idle", attempt |-> 0, maxAttempts |-> 0, delayMs |-> 0, lastError |-> Undefined,
   invoked |-> 0, settled |-> <<>>, slept |-> 0, waited |-> 0,
   result |-> Undefined, thrown |-> Undefined]

\* No clickElement call has been made.
NoClick ==
  [pc |-> "idle", attempt |-> 0, maxRetries |-> 0, lastError |-> Undefined,
   failed |-> 0, clicks |-> 0, thrown |-> Undefined]

\* No step of a workflow has started.
NoFlow ==
  /\ retry = [c \in Callers |-> NoRetry]
  /\ click = [c \in Callers |-> NoClick]
  /\ rpc = [c \in Callers |-> "none"]
  /\ submits = [c \in Callers |-> 0]

\* A service that has made no call, on an account without a token.
NoService ==
  [ipc |-> "new", pc |-> "idle", provided |-> FALSE, token |-> FALSE, canSave |-> FALSE,
   awaited |-> TRUE, initialHasToken |-> FALSE, didSignIn |-> FALSE, attempt |-> 0,
   fnCalls |-> 0, authFails |-> 0, signIns |-> 0, thrown |-> "none"]

\* No crawler execution has started.
NoCrawl ==
  /\ NoFlow
  /\ svc = NoService
  /\ mpc = [c \in Callers |-> "execute"]
  /\ wpc = [c \in Callers |-> "none"]
  /\ browser = [c \in Callers |-> None]
  /\ page = [c \in Callers |-> None]
  /\ pooledBrowser = [c \in Callers |-> FALSE]
  /\ winst = [c \in Callers |-> None]
  /\ misused = [c \in Callers |-> FALSE]

\* ------------------------------------------------------------------------
\* SpecSeq: one breaker, one call at a time, Redis either reachable for the
\* whole run or not configured.
\* ------------------------------------------------------------------------
InitSeq ==
  /\ InitBreaker
  /\ PoolConfig(MaxInstancesCfg)
  /\ NewPool
  /\ NoCrawl
  /\ replicaOf = [c \in Callers |-> "r1"]
  /\ \E up \in BOOLEAN : redisUp = [r \in Replicas |-> up]

NextSeq ==
  \/ ExecGetState("c1") /\ UNCHANGED calls
  \/ ExecuteStep("c1")
  \/ Tick(MaxTime)

SpecSeq == InitSeq /\ [][NextSeq]_vars

\* ------------------------------------------------------------------------
\* Claims checked under SpecSeq
\* ------------------------------------------------------------------------
\* The success counter as a replica sees it (the store's, or the local copy).
SuccessCount(r) ==
  IF ~redisUp[r] THEN local[r].localSuccessCount
  ELSE IF store["success"].has THEN store["success"].val ELSE 0

\* After an opening and before its nextAttempt, no call invokes its work.
NoWorkInWindow == \A c \in Callers : cpc[c] = "work" => ~obs[c].hot

\* C2 as stated: starting from CLOSED with failure counter 0, after
\* failureThreshold consecutive failing execute() calls the circuit is OPEN
\* with nextAttempt = time of opening + resetTimeout, and an execute() before
\* nextAttempt is rejected without invoking its work; fewer consecutive
\* failures leave the circuit CLOSED.
C2_Original ==
  /\ cpc["c1"] = "idle" /\ hist.streak = FAILURE_THRESHOLD
       => /\ getState("r1") = "OPEN"
          /\ local["r1"].localNextAttempt = hist.lastFailAt + RESET_TIMEOUT
          /\ now < hist.lastFailAt + RESET_TIMEOUT
               => getNextAttempt("r1") = hist.lastFailAt + RESET_TIMEOUT
  /\ cpc["c1"] = "idle" /\ hist.streak > 0 /\ hist.streak < FAILURE_THRESHOLD
       => getState("r1") = "CLOSED"
  /\ NoWorkInWindow

\* C2 amended: the same, for failures each of which is recorded less than the
\* failures key's TTL (300 s) after the one before it.
C2_ThresholdOpens ==
  /\ cpc["c1"] = "idle" /\ hist.streak = FAILURE_THRESHOLD /\ hist.fresh
       => /\ getState("r1") = "OPEN"
          /\ local["r1"].localNextAttempt = hist.lastFailAt + RESET_TIMEOUT
          /\ now < hist.lastFailAt + RESET_TIMEOUT
               => getNextAttempt("r1") = hist.lastFailAt + RESET_TIMEOUT
  /\ cpc["c1"] = "idle" /\ hist.streak > 0 /\ hist.streak < FAILURE_THRESHOLD
       => getState("r1") = "CLOSED"
  /\ NoWorkInWindow

\* C2's case: the threshold opened the circuit through Redis and a call that
\* entered before nextAttempt was rejected.
C2_Witness ==
  /\ redisUp["r1"]
  /\ tripAt > 0
  /\ cpc["c1"] = "idle"
  /\ obs["c1"].result = "CIRCUIT_OPEN"
  /\ obs["c1"].enteredHot

\* C4: when the circuit is OPEN and now >= nextAttempt, the next execute()
\* is not rejected, sets the state to HALF_OPEN and invokes its work; a work
\* that fails while the state is HALF_OPEN sets the circuit back to OPEN with
\* nextAttempt = now + resetTimeout, whatever the failure counter.
C4_HalfOpenProbe ==
  /\ obs["c1"].due => obs["c1"].result # "CIRCUIT_OPEN"
  /\ obs["c1"].due /\ cpc["c1"] = "work" => getState("r1") = "HALF_OPEN"
  /\ cpc["c1"] = "idle" /\ obs["c1"].failHalf
       => /\ getState("r1") = "OPEN"
          /\ local["r1"].localNextAttempt = obs["c1"].failAt + RESET_TIMEOUT
          /\ now < obs["c1"].failAt + RESET_TIMEOUT
               => getNextAttempt("r1") = obs["c1"].failAt + RESET_TIMEOUT

\* C4's case: a probe entered an OPEN circuit past nextAttempt, failed in
\* HALF_OPEN with a failure count below the threshold, and the call is over.
C4_Witness ==
  /\ obs["c1"].due
  /\ obs["c1"].failHalf
  /\ cpc["c1"] = "idle"
  /\ cnt["c1"] < FAILURE_THRESHOLD
  /\ getFailureCount("r1") < FAILURE_THRESHOLD

\* C5 as stated: successThreshold successes in HALF_OPEN with no failure in
\* between close the circuit with both counters zero; fewer leave it
\* HALF_OPEN.
C5_Original ==
  /\ cpc["c1"] = "idle" /\ hist.probes = SUCCESS_THRESHOLD
       => /\ getState("r1") = "CLOSED"
          /\ getFailureCount("r1") = 0
          /\ SuccessCount("r1") = 0
          /\ local["r1"].localFailureCount = 0
          /\ local["r1"].localSuccessCount = 0
  /\ cpc["c1"] = "idle" /\ hist.probes > 0 /\ hist.probes < SUCCESS_THRESHOLD
       => getState("r1") = "HALF_OPEN"

\* C5 amended: the same, for probe successes each of which is recorded less
\* than the success key's TTL (60 s) after the one before it.
C5_ProbesClose ==
  /\ cpc["c1"] = "idle" /\ hist.probes = SUCCESS_THRESHOLD /\ hist.probesFresh
       => /\ getState("r1") = "CLOSED"
          /\ getFailureCount("r1") = 0
          /\ SuccessCount("r1") = 0
          /\ local["r1"].localFailureCount = 0
          /\ local["r1"].localSuccessCount = 0
  /\ cpc["c1"] = "idle" /\ hist.probes > 0 /\ hist.probes < SUCCESS_THRESHOLD
       => getState("r1") = "HALF_OPEN"

\* C5's case: two probe successes in a row, through Redis, closed the circuit.
C5_Witness ==
  /\ redisUp["r1"]
  /\ cpc["c1"] = "idle"
  /\ hist.probes = SUCCESS_THRESHOLD
  /\ hist.probesFresh
  /\ getState("r1") = "CLOSED"

\* C14: when the wrapped work throws an error, execute() records exactly
\* one failure and throws that same error; an error that did not come from
\* the work is CIRCUIT_OPEN, thrown without the work having run, or
\* CIRCUIT_TIMEOUT.
C14_FailureRethrown ==
  /\ obs["c1"].recorded <= 1
  /\ cpc["c1"] = "idle" /\ obs["c1"].err = "error"
       => obs["c1"].result = "error" /\ obs["c1"].recorded = 1
  /\ cpc["c1"] = "idle" /\ obs["c1"].result \notin {"none", "ok", "error"}
       => \/ /\ obs["c1"].result = "CIRCUIT_OPEN"
             /\ obs["c1"].wasOpen /\ obs["c1"].err = "none" /\ obs["c1"].recorded = 0
          \/ /\ obs["c1"].result = "CIRCUIT_TIMEOUT"
             /\ obs["c1"].err = "CIRCUIT_TIMEOUT" /\ obs["c1"].recorded = 1

\* C14's case: the work threw, the failure was counted and opened the
\* circuit, and execute() threw the work's error.
C14_Witness ==
  /\ cpc["c1"] = "idle"
  /\ obs["c1"].err = "error"
  /\ obs["c1"].result = "error"
  /\ obs["c1"].recorded = 1
  /\ obs["c1"].setAt = now
  /\ getState("r1") = "OPEN"

\* ------------------------------------------------------------------------
\* SpecCB: two replicas sharing a reachable Redis, one call in flight on
\* each, interleaved at every Redis command.
\* ------------------------------------------------------------------------
\* The breaker has seen failures before: the run starts either fresh or
\* after replica r1 recorded failureThreshold - 1 failures in a row.
InitCB ==
  /\ now = 1
  /\ \E n \in {0, FAILURE_THRESHOLD - 1} :
       /\ store = IF n = 0 THEN [k \in Keys |-> NoKey(k)]
                  ELSE [[k \in Keys |-> NoKey(k)] EXCEPT
                          !["failures"] = [has |-> TRUE, val |-> n, vol |-> TRUE,
                                           exp |-> now + FAILURES_TTL]]
       /\ local = [r \in Replicas |->
                    IF r = "r1" /\ n > 0
                    THEN [NewBreaker EXCEPT !.localFailureCount = n, !.lastError = "error"]
                    ELSE NewBreaker]
  /\ cpc = [c \in Callers |-> "idle"]
  /\ cnt = [c \in Callers |-> 0]
  /\ workStart = [c \in Callers |-> 0]
  /\ obs = [c \in Callers |-> NoObs]
  /\ calls = [c \in Callers |-> 0]
  /\ tripAt = 0
  /\ hist = [NoHist EXCEPT !.on = FALSE]
  /\ PoolConfig(MaxInstancesCfg)
  /\ NewPool
  /\ NoCrawl
  /\ replicaOf = [c \in Callers |-> IF c = "c2" THEN "r2" ELSE "r1"]
  /\ redisUp = [r \in Replicas |-> TRUE]

\* A caller makes at most MaxCallsCB calls.
CallCB(c) ==
  /\ calls[c] < MaxCallsCB
  /\ ExecGetState(c)
  /\ calls' = [calls EXCEPT ![c] = @ + 1]

NextCB ==
  \/ \E c \in {"c1", "c2"} : CallCB(c) \/ ExecuteStep(c)
  \/ Tick(MaxTimeCB)

SpecCB == InitCB /\ [][NextCB]_vars

\* C3: after a CLOSED to OPEN transition caused by reaching failureThreshold
\* has completed, no execute() entered by any replica before resetTimeout has
\* elapsed invokes its work: each is rejected with CIRCUIT_OPEN.
C3_Original ==
  \A c \in Callers :
    /\ cpc[c] = "work" => ~obs[c].hot
    /\ obs[c].enteredHot /\ cpc[c] = "idle" /\ obs[c].result # "none"
         => obs[c].result = "CIRCUIT_OPEN" \/ ~obs[c].hot

\* ------------------------------------------------------------------------
\* The connection to Redis
\* ------------------------------------------------------------------------
\* Redis answers replica r's commands again (ioredis reconnects by itself).
StoreRecovers(r) ==
  /\ ~redisUp[r]
  /\ redisUp' = [redisUp EXCEPT ![r] = TRUE]
  /\ UNCHANGED <<now, store, local, replicaOf, cpc, cnt, workStart, obs, calls, tripAt, hist,
                 poolVars, crawlVars>>

\* Replica r's commands to Redis are rejected from now on.
StoreFails(r) ==
  /\ redisUp[r]
  /\ redisUp' = [redisUp EXCEPT ![r] = FALSE]
  /\ UNCHANGED <<now, store, local, replicaOf, cpc, cnt, workStart, obs, calls, tripAt, hist,
                 poolVars, crawlVars>>

\* The circuit state as the store has it.
StoreState == IF store["state"].has THEN store["state"].val ELSE "CLOSED"

\* ------------------------------------------------------------------------
\* SpecTwin: two breakers side by side, r1 backed by a reachable Redis, r2
\* with Redis unreachable, given the same calls: in each round c1 calls
\* execute() on r1, then c2 on r2, and c2's work ends as c1's did.  The work
\* settles at once; the clock moves between rounds.  In the end Redis
\* becomes reachable for r2.
\* ------------------------------------------------------------------------
MaxTimeTwin == 5

InitTwin ==
  /\ InitBreaker
  /\ PoolConfig(MaxInstancesCfg)
  /\ NewPool
  /\ NoCrawl
  /\ replicaOf = [c \in Callers |-> IF c = "c2" THEN "r2" ELSE "r1"]
  /\ redisUp = [r \in Replicas |-> r = "r1"]

\* The round's call on r1, and after it has returned the same call on r2.
TwinCall(c) ==
  /\ calls[c] = 0
  /\ IF c = "c1" THEN calls["c2"] = 0 ELSE calls["c1"] = 1 /\ cpc["c1"] = "idle"
  /\ ExecGetState(c)
  /\ calls' = [calls EXCEPT ![c] = 1]

\* The work of the round succeeds or throws, for both breakers alike (where
\* r1 rejected the call, the work is that of another round).
TwinWork(c) ==
  IF c = "c1" \/ obs["c1"].result = "CIRCUIT_OPEN"
  THEN WorkReturns(c) \/ WorkFails(c, "error")
  ELSE IF obs["c1"].result = "ok" THEN WorkReturns(c) ELSE WorkFails(c, "error")

\* Both calls of the round are over.
TwinRoundOver ==
  /\ calls["c1"] = 1 /\ calls["c2"] = 1
  /\ cpc["c1"] = "idle" /\ cpc["c2"] = "idle"

TwinRoundEnds ==
  /\ TwinRoundOver
  /\ calls' = [c \in Callers |-> 0]
  /\ UNCHANGED <<now, store, redisUp, local, replicaOf, cpc, cnt, workStart, obs, tripAt, hist,
                 poolVars, crawlVars>>

TwinTick ==
  /\ calls["c1"] = 0 /\ calls["c2"] = 0
  /\ Tick(MaxTimeTwin)

TwinRecovers ==
  /\ calls["c1"] = 0 /\ calls["c2"] = 0
  /\ StoreRecovers("r2")

NextTwin ==
  \/ \E c \in {"c1", "c2"} : TwinCall(c)
  \/ \E c \in {"c1", "c2"} : BreakerStep(c)
  \/ \E c \in {"c1", "c2"} : TwinWork(c)
  \/ TwinRoundEnds
  \/ TwinTick
  \/ TwinRecovers

SpecTwin == InitTwin /\ [][NextTwin]_vars

\* C12: a breaker whose store is unreachable for the whole run goes through
\* the same states and makes the same accept / reject decisions, for every
\* sequence of work outcomes and clock steps, as a breaker backed by a
\* reachable store; and once the store is reachable again the next execute()
\* decides on the state it reads from the store.
C12_Original ==
  /\ ~redisUp["r2"] /\ TwinRoundOver
       => /\ getState("r1") = getState("r2")
          /\ obs["c1"].result = obs["c2"].result
  /\ redisUp["r2"]
       => /\ cpc["c2"] = "getNextAttempt" => StoreState = "OPEN"
          /\ cpc["c2"] = "work" /\ ~obs["c2"].wasOpen => StoreState # "OPEN"

\* ------------------------------------------------------------------------
\* SpecShared: two replicas sharing a reachable Redis.  The requests come
\* one after another, and the load balancer hands each of them to either
\* replica: c1 is the request in progress, replicaOf["c1"] the replica that
\* runs it.
\* ------------------------------------------------------------------------
MaxCallsShared == 7

InitShared ==
  /\ InitBreaker
  /\ PoolConfig(MaxInstancesCfg)
  /\ NewPool
  /\ NoCrawl
  /\ replicaOf = [c \in Callers |-> "r1"]
  /\ redisUp = [r \in Replicas |-> TRUE]

\* The next request goes to the other replica.
Route ==
  /\ cpc["c1"] = "idle"
  /\ replicaOf' = [replicaOf EXCEPT !["c1"] = IF @ = "r1" THEN "r2" ELSE "r1"]
  /\ UNCHANGED <<calls, tripAt, now, redisUp, poolVars, crawlVars, local, store,
                 cpc, cnt, workStart, obs, hist>>

NextShared ==
  \/ Route
  \/ /\ calls["c1"] < MaxCallsShared
     /\ ExecGetState("c1")
     /\ calls' = [calls EXCEPT !["c1"] = @ + 1]
  \/ ExecuteStep("c1")
  \/ Tick(MaxTime)

SpecShared == InitShared /\ [][NextShared]_vars

\* No request is in progress.
SharedIdle == cpc["c1"] = "idle"

Written(st) ==
  [state    |-> [has |-> TRUE, val |-> st, vol |-> TRUE, exp |-> now + STATE_TTL],
   failures |-> [has |-> TRUE, val |-> FAILURE_THRESHOLD - 1, vol |-> TRUE,
                 exp |-> now + FAILURES_TTL],
   success  |-> [has |-> TRUE, val |-> SUCCESS_THRESHOLD - 1, vol |-> TRUE,
                 exp |-> now + SUCCESS_TTL],
   next     |-> [has |-> TRUE, val |-> NextAttemptFrom(now), vol |-> TRUE,
                 exp |-> now + RESET_TIMEOUT]]

InitKeys ==
  /\ now = 1
  /\ \E st \in {"CLOSED", "OPEN", "HALF_OPEN"} : \E kept \in SUBSET Keys :
       store = [k \in Keys |-> IF k \in kept THEN Written(st)[k] ELSE NoKey(k)]
  /\ local = [r \in Replicas |-> NewBreaker]
  /\ cpc = [c \in Callers |-> "idle"]
  /\ cnt = [c \in Callers |-> 0]
  /\ workStart = [c \in Callers |-> 0]
  /\ obs = [c \in Callers |-> NoObs]
  /\ calls = [c \in Callers |-> 0]
  /\ tripAt = 0
  /\ hist = [NoHist EXCEPT !.on = FALSE]
  /\ replicaOf = [c \in Callers |-> "r1"]
  /\ redisUp = [r \in Replicas |-> TRUE]
  /\ PoolConfig(MaxInstancesCfg)
  /\ NewPool
  /\ NoCrawl

NextKeys ==
  \/ CallCB("c1")
  \/ ExecuteStep("c1")
  \/ Tick(MaxTimeCB)

SpecKeys == InitKeys /\ [][NextKeys]_vars

\* No key of the circuit's record is in the store.
NoRecord == \A k \in Keys : ~store[k].has

\* C21: whichever keys are missing from the store, getState gives CLOSED
\* for a missing state, getFailureCount 0 for a missing failures key and
\* getNextAttempt a time not later than now for a missing next key (each a
\* value, never an error), and an execute() that finds no record at all
\* invokes its work.
C21_MissingKeysDefault ==
  /\ [](\A r \in Replicas :
          /\ ~store["state"].has => getState(r) = "CLOSED"
          /\ ~store["failures"].has => getFailureCount(r) = 0
          /\ ~store["next"].has => getNextAttempt(r) \in 0 .. now)
  /\ [][\A c \in Callers :
          cpc[c] = "idle" /\ cpc'[c] # "idle" /\ NoRecord => cpc'[c] = "work"]_vars

\* C21's case: the store holds no record (the state written is not there)
\* and the call has invoked its work.
C21_Witness ==
  /\ NoRecord
  /\ calls["c1"] = 1
  /\ cpc["c1"] = "work"

\* C26: a call rejected with CIRCUIT_OPEN is given, as lastError, the
\* message of the most recent work failure recorded for the circuit, on
\* whichever replica the rejection happens.
C26_Original ==
  [][\A c \in Callers :
       cpc[c] = "getNextAttempt" /\ cpc'[c] = "idle"
         => local[replicaOf[c]].lastError = hist.lastErr]_vars

\* ------------------------------------------------------------------------
\* SpecOutage: one replica, its calls one after another, the connection to
\* Redis lost and found again at any moment.
\* ------------------------------------------------------------------------
MaxCallsOutage == 7

InitOutage ==
  /\ InitBreaker
  /\ PoolConfig(MaxInstancesCfg)
  /\ NewPool
  /\ NoCrawl
  /\ replicaOf = [c \in Callers |-> "r1"]
  /\ redisUp = [r \in Replicas |-> TRUE]

NextOutage ==
  \/ /\ calls["c1"] < MaxCallsOutage
     /\ ExecGetState("c1")
     /\ calls' = [calls EXCEPT !["c1"] = @ + 1]
  \/ ExecuteStep("c1")
  \/ StoreFails("r1")
  \/ StoreRecovers("r1")
  \/ Tick(MaxTimeCB)

SpecOutage == InitOutage /\ [][NextOutage]_vars

\* C24 as stated: when a successful execute() has returned, the failure
\* counter is zero in the store and in the replica's local copy, so that a
\* circuit which opens from CLOSED has seen failureThreshold failures since
\* its last success, never fewer.
C24_Original ==
  /\ cpc["c1"] = "idle" /\ obs["c1"].result = "ok"
       => /\ ~store["failures"].has \/ store["failures"].val = 0
          /\ local["r1"].localFailureCount = 0
  /\ cpc["c1"] = "idle" /\ obs["c1"].fromClosed
       => hist.streak \notin 1 .. FAILURE_THRESHOLD - 1

\* ------------------------------------------------------------------------
\* SpecRecover: the circuit is OPEN or HALF_OPEN (Redis reachable and
\* holding any part of the record, or not reachable), and from now on every
\* work succeeds.  Two callers keep calling execute(), as often or as seldom
\* as they like.  Time has no bound here: the code compares timestamps with
\* Date.now() only, so a step of the clock is written as every timestamp
\* moving one unit towards a clock that stands still.
\* ------------------------------------------------------------------------
Recoverers == {"c1", "c2"}
MaxCallsPerUnit == 1

InitRecover ==
  /\ now = 1
  /\ \E st \in {"OPEN", "HALF_OPEN"} :
       /\ \/ /\ redisUp = [r \in Replicas |-> TRUE]
             /\ \E kept \in SUBSET Keys :
                  store = [k \in Keys |-> IF k \in kept THEN Written(st)[k] ELSE NoKey(k)]
          \/ /\ redisUp = [r \in Replicas |-> FALSE]
             /\ store = [k \in Keys |-> NoKey(k)]
       /\ local = [r \in Replicas |->
                    [localState |-> st,
                     localFailureCount |-> FAILURE_THRESHOLD,
                     localSuccessCount |-> IF st = "OPEN" THEN 0 ELSE SUCCESS_THRESHOLD - 1,
                     localNextAttempt |-> NextAttemptFrom(now),
                     lastError |-> "error"]]
  /\ cpc = [c \in Callers |-> "idle"]
  /\ cnt = [c \in Callers |-> 0]
  /\ workStart = [c \in Callers |-> 0]
  /\ obs = [c \in Callers |-> NoObs]
  /\ calls = [c \in Callers |-> 0]
  /\ tripAt = 0
  /\ hist = [NoHist EXCEPT !.on = FALSE]
  /\ replicaOf = [c \in Callers |-> "r1"]
  /\ PoolConfig(MaxInstancesCfg)
  /\ NewPool
  /\ NoCrawl

\* execute() is called: by each caller at most MaxCallsPerUnit times in a
\* time unit (calls[c] counts them).
RecoverCall(c) ==
  /\ calls[c] < MaxCallsPerUnit
  /\ ExecGetState(c)
  /\ calls' = [calls EXCEPT ![c] = @ + 1]

\* A step of a call whose work succeeds.
RecoverStep(c) ==
  /\ \/ ExecGetNextAttempt(c)
     \/ ExecSetHalfOpen(c)
     \/ WorkReturns(c)
     \/ SuccResetFailures(c)
     \/ SuccGetState(c)
     \/ SuccIncrement(c)
     \/ SuccExpire(c)
     \/ SuccSetClosed(c)
     \/ SuccResetSuccess(c)
  /\ UNCHANGED calls

\* One time unit passes (see Tick): expiry times, the stored nextAttempt
\* and the local nextAttempt come one unit nearer.  A call whose work
\* succeeds is short against the time unit: the clock moves between calls.
Elapse ==
  /\ \A c \in Callers : cpc[c] = "idle"
  /\ store' = RedisPurge(
                [k \in Keys |->
                   IF ~store[k].has THEN store[k]
                   ELSE [store[k] EXCEPT
                           !.exp = IF store[k].vol THEN @ - 1 ELSE @,
                           !.val = IF k = "next" THEN @ - 1 ELSE @]],
                now)
  /\ local' = [r \in Replicas |->
                 [local[r] EXCEPT !.localNextAttempt = IF @ > now THEN @ - 1 ELSE @]]
  /\ calls' = [c \in Callers |-> 0]
  /\ UNCHANGED <<now, tripAt, redisUp, poolVars, crawlVars, replicaOf, cpc, cnt, workStart,
                 obs, hist>>

NextRecover ==
  \/ \E c \in Recoverers : RecoverCall(c)
  \/ \E c \in Recoverers : RecoverStep(c)
  \/ Elapse

\* Awaits resolve, execute() keeps being called, and time goes on.
SpecRecover ==
  /\ InitRecover
  /\ [][NextRecover]_vars
  /\ WF_vars(\E c \in Recoverers : RecoverStep(c))
  /\ WF_vars(\E c \in Recoverers : RecoverCall(c))
  /\ WF_vars(Elapse)

\* C25: when every work succeeds from some point on and execute() keeps
\* being called, the circuit becomes CLOSED and stays CLOSED, by the calls
\* alone (no forceClose, no restart).
C25_RecoversByItself == <>[](getState("r1") = "CLOSED")

\* C25's case: a probe has closed the circuit, in the store or, without
\* Redis, in the replica's local state.
C25_Witness ==
  /\ getState("r1") = "CLOSED"
  /\ local["r1"].localState = "CLOSED"
  /\ redisUp["r1"] => store["state"].has
  /\ \A c \in Recoverers : cpc[c] = "idle" /\ obs[c].result = "ok"

\* ------------------------------------------------------------------------
\* SpecPool: three callers of acquire() and release() on one pool, the
\* breaker idle.
\* ------------------------------------------------------------------------
InitPool ==
  /\ InitBreaker
  /\ replicaOf = [c \in Callers |-> "r1"]
  /\ redisUp = [r \in Replicas |-> FALSE]
  /\ NoCrawl
  /\ PoolConfig(MaxInstancesCfg)
  /\ \/ NewPool
     \/ \E used \in {0, MAX_USAGE_COUNT - 1} : StartedPool(used, TRUE)

NextPool ==
  \/ \E c \in Callers : AcquireCall(c) /\ UNCHANGED crawlVars
  \/ \E c \in Callers : ReleaseCall(c) /\ UNCHANGED crawlVars
  \/ \E c \in Callers : InitLaunched(c) /\ UNCHANGED crawlVars
  \/ \E c \in Callers : AcquireAfterInit(c) /\ UNCHANGED crawlVars
  \/ \E c \in Callers : AcquireCreated(c) /\ UNCHANGED crawlVars
  \/ \E c \in Callers : Poll(c) /\ UNCHANGED crawlVars
  \/ \E c \in Callers : RemoveClosed(c) /\ UNCHANGED crawlVars
  \/ \E c \in Callers : Recreated(c) /\ UNCHANGED crawlVars
  \/ \E c \in Callers : RetireClosed(c) /\ UNCHANGED crawlVars
  \/ \E c \in Callers : Replaced(c) /\ UNCHANGED crawlVars
  \/ \E c \in Callers : PagesDone(c) /\ UNCHANGED crawlVars
  \/ \E c \in Callers : PagesFails(c) /\ UNCHANGED crawlVars
  \/ \E i \in Instances : Crash(i) /\ UNCHANGED crawlVars
  \/ Tick(MaxTimePool)

SpecPool == InitPool /\ [][NextPool]_vars

\* The pool finishes the calls it was given; callers need not call.
SpecPoolFair ==
  SpecPool /\ \A c \in Callers : WF_vars(PoolStep(c) /\ UNCHANGED crawlVars)

\* C35: when release(browser) of a tracked instance ends, by returning or
\* by throwing, the instance is out of the in-use set: it is on the idle
\* list or no longer in the pool.
C35_Original ==
  [][\A c \in Callers :
       ppc[c] \in {"pages", "retireClose", "replace"} /\ ppc'[c] = "idle"
         => /\ pinst[c] \notin inUse'
            /\ pinst[c] \in Idle' \/ pinst[c] \notin pool']_vars

\* Every acquire() made so far is still in, or just past, its
\* initialize(): whatever instance exists was created by initialize().
OnlyInitializing ==
  /\ acquires = Cardinality({c \in Callers : ppc[c] # "idle"})
  /\ \A c \in Callers : ppc[c] \in {"idle", "initLaunch", "afterInit"}

\* C33: whatever first-time acquire() calls were made, concurrent or not,
\* initialization has created at most minInstances instances, exactly
\* minInstances once it is over, and pool.length does not exceed
\* maxInstances.
C33_Original ==
  OnlyInitializing
    => /\ nextId - 1 <= minInstances
       /\ Cardinality(pool) <= maxInstances
       /\ initialized /\ (\A c \in Callers : ppc[c] # "initLaunch")
            => nextId - 1 = minInstances

\* C1: in every interleaving of acquire() and release() calls, pool.length
\* never exceeds maxInstances and the in-use set never exceeds maxInstances.
C1_Original ==
  /\ Cardinality(pool) <= maxInstances
  /\ Cardinality(inUse) <= maxInstances

\* C8: acquire() never returns a browser that is disconnected at hand-off;
\* where it found the instance it got disconnected, that instance has left
\* the pool and the browser returned is another, newly created one.
C8_LiveAtHandOff ==
  \A c \in Callers :
    handed[c].inst # None =>
      /\ handed[c].live
      /\ found[c] # None =>
           /\ handed[c].inst # found[c]
           /\ handed[c].fresh
           /\ found[c] \notin pool
           /\ found[c] \notin Idle

\* A caller was handed a replacement for a disconnected instance, and
\* another got its browser from waitForAvailable or from the idle list.
C8_Witness ==
  \E c \in Callers :
    /\ ppc[c] = "holding"
    /\ found[c] # None
    /\ handed[c].inst = held[c]

\* C9: an instance whose usage count or age has reached its limit when it is
\* released is closed and removed by that release(), and no later acquire()
\* returns it.
C9_Original ==
  /\ \A c \in Callers : ppc[c] = "holding" => held[c] \notin spent
  /\ \A i \in spent :
       (\A c \in Callers : pinst[c] # i) => i \notin pool /\ ~inst[i].connected

\* C10: when all maxInstances instances are in use and an acquire() is
\* blocked in waitForAvailable, then once an in-use instance is released the
\* blocked acquire() eventually returns an instance (its bound on the in-use
\* set is the second part of C1_Original).
C10_Original == \A c \in Callers : owed[c] ~> ~owed[c]

\* ------------------------------------------------------------------------
\* SpecPoolOps: two callers of acquire(), release() and shutdown() on one
\* pool; release() is also called with a browser that has been released
\* already.  The clock stands still; the pool holds one or two instances.
\* ------------------------------------------------------------------------
PoolCallers == {"c1", "c2"}

\* The idle list is kept below MaxIdle entries.
MaxIdle == 2

\* release(browser) of a browser the caller got from an earlier acquire() and
\* has released since: the same lookup and the same two ways as any release.
ReleaseAgain(c, i) ==
  /\ ppc[c] = "idle"
  /\ i \in pool
  /\ inst[i].usageCount > 0
  /\ \A d \in Callers : held[d] # i
  /\ Len(available) + Cardinality({d \in Callers : ppc[d] = "pages"}) < MaxIdle
  /\ ppc' = [ppc EXCEPT ![c] = IF shouldRetire(inst[i]) THEN "retireClose" ELSE "pages"]
  /\ pinst' = [pinst EXCEPT ![c] = i]
  /\ spent' = IF AtLimit(inst[i]) THEN spent \cup {i} ELSE spent
  /\ UNCHANGED <<cfgVars, initialized, pool, available, inUse, inst, nextId, openPages,
                 pidx, held, acquires, crashes, found, handed, owed, cbVars>>

\* shutdown() is called: close() is sent to every browser of the pool.
ShutdownCall(c) ==
  /\ ppc[c] = "idle"
  /\ pool # {}
  /\ inst' = [i \in Instances |->
                IF i \in pool THEN [inst[i] EXCEPT !.connected = FALSE] ELSE inst[i]]
  /\ ppc' = [ppc EXCEPT ![c] = "shutdown"]
  /\ UNCHANGED <<cfgVars, initialized, pool, available, inUse, nextId, openPages, pinst,
                 pidx, held, acquires, crashes, found, handed, spent, owed, cbVars>>

\* shutdown, after await Promise.all(closePromises): the three collections
\* are emptied and initialized is reset.
ShutdownDone(c) ==
  /\ ppc[c] = "shutdown"
  /\ pool' = {}
  /\ available' = <<>>
  /\ inUse' = {}
  /\ initialized' = FALSE
  /\ ppc' = [ppc EXCEPT ![c] = "idle"]
  /\ UNCHANGED <<cfgVars, inst, nextId, openPages, pinst, pidx, held, acquires, crashes,
                 found, handed, spent, owed, cbVars>>

InitPoolOps ==
  /\ InitBreaker
  /\ replicaOf = [c \in Callers |-> "r1"]
  /\ redisUp = [r \in Replicas |-> FALSE]
  /\ NoCrawl
  /\ \E max \in 1 .. MaxInstancesCfg : PoolConfig(max)
  /\ \/ NewPool
     \/ \E used \in {0, MAX_USAGE_COUNT} : StartedPool(used, TRUE)

NextPoolOps ==
  \/ \E c \in PoolCallers : AcquireCall(c) /\ UNCHANGED crawlVars
  \/ \E c \in PoolCallers : ReleaseCall(c) /\ UNCHANGED crawlVars
  \/ \E c \in PoolCallers : \E i \in Instances : ReleaseAgain(c, i) /\ UNCHANGED crawlVars
  \/ \E c \in PoolCallers : ShutdownCall(c) /\ UNCHANGED crawlVars
  \/ \E c \in PoolCallers : ShutdownDone(c) /\ UNCHANGED crawlVars
  \/ \E c \in PoolCallers : InitLaunched(c) /\ UNCHANGED crawlVars
  \/ \E c \in PoolCallers : AcquireAfterInit(c) /\ UNCHANGED crawlVars
  \/ \E c \in PoolCallers : AcquireCreated(c) /\ UNCHANGED crawlVars
  \/ \E c \in PoolCallers : Poll(c) /\ UNCHANGED crawlVars
  \/ \E c \in PoolCallers : RemoveClosed(c) /\ UNCHANGED crawlVars
  \/ \E c \in PoolCallers : Recreated(c) /\ UNCHANGED crawlVars
  \/ \E c \in PoolCallers : RetireClosed(c) /\ UNCHANGED crawlVars
  \/ \E c \in PoolCallers : Replaced(c) /\ UNCHANGED crawlVars
  \/ \E c \in PoolCallers : PagesDone(c) /\ UNCHANGED crawlVars
  \/ \E c \in PoolCallers : PagesFails(c) /\ UNCHANGED crawlVars

SpecPoolOps == InitPoolOps /\ [][NextPoolOps]_vars

\* No call of the pool is between two of its awaits.
PoolQuiet == \A c \in Callers : ppc[c] \in {"idle", "holding"}

\* C11: after any sequence of acquire, release (a repeated release and a
\* release of an idle browser included) and shutdown calls, an instance
\* appears at most once in the idle list; whenever no pool operation is
\* mid-flight every tracked instance is in exactly one of the idle list and
\* the in-use set, so that total = available + inUse; and acquire() never
\* hands out an instance that was removed from the pool.
C11_Original ==
  /\ \A j, k \in 1 .. Len(available) : available[j] = available[k] => j = k
  /\ PoolQuiet =>
       /\ Idle \cap inUse = {}
       /\ Idle \cup inUse = pool
       /\ Cardinality(pool) = Len(available) + Cardinality(inUse)
  /\ \A c \in Callers : ~handed[c].gone

\* C23: release(browser) with a browser the pool does not track returns at
\* once: the tracked list, the idle list and the in-use set are as before,
\* no browser is closed and none is created.
C23_StrayReleaseNoOp ==
  [][\A c \in Callers :
       ppc[c] = "holding" /\ held[c] \notin pool /\ ppc'[c] # "holding"
         => /\ ppc'[c] = "idle"
            /\ UNCHANGED <<pool, available, inUse, inst, nextId, openPages, initialized>>]_vars

\* C23's case: a caller has released a browser lent to it before a
\* shutdown, and the pool has another instance in use.
C23_Witness ==
  \E c \in Callers :
    /\ handed[c].stray
    /\ ppc[c] = "idle"
    /\ inUse # {}

\* C28: once shutdown() has completed, and until the pool is initialized
\* again, the pool tracks nothing (the tracked list, the idle list and the
\* in-use set are empty, initialized is false) and every browser it has
\* tracked has been asked to close.
C28_Original ==
  (\A c \in Callers : ppc[c] # "shutdown") /\ ~initialized /\ pool = {}
    => /\ available = <<>>
       /\ inUse = {}
       /\ \A i \in 1 .. nextId - 1 : ~inst[i].connected

\* ------------------------------------------------------------------------
\* SpecRetire: a pool constructed with minInstances = 2, initialized, its
\* two instances fresh or at their usage limit; three callers acquire and
\* release.
\* ------------------------------------------------------------------------
MinInstancesCfg == 2

InitRetire ==
  /\ InitBreaker
  /\ replicaOf = [c \in Callers |-> "r1"]
  /\ redisUp = [r \in Replicas |-> FALSE]
  /\ NoCrawl
  /\ minInstances = MinInstancesCfg
  /\ \E max \in MinInstancesCfg .. MinInstancesCfg + 1 : maxInstances = max
  /\ instanceTimeout = InstanceTimeoutCfg
  /\ PoolCallersIdle
  /\ initialized = TRUE
  /\ pool = 1 .. MinInstancesCfg
  /\ available = [k \in 1 .. MinInstancesCfg |-> k]
  /\ inUse = {}
  /\ \E used \in {0, MAX_USAGE_COUNT} :
       inst = [i \in Instances |->
                 IF i <= MinInstancesCfg
                 THEN [createdAt |-> 1, usageCount |-> used, connected |-> TRUE]
                 ELSE NoInstance]
  /\ nextId = MinInstancesCfg + 1

NextRetire ==
  \/ \E c \in Callers : AcquireCall(c) /\ UNCHANGED crawlVars
  \/ \E c \in Callers : AcquireCreated(c) /\ UNCHANGED crawlVars
  \/ \E c \in Callers : Poll(c) /\ UNCHANGED crawlVars
  \/ \E c \in Callers : ReleaseCall(c) /\ UNCHANGED crawlVars
  \/ \E c \in Callers : RetireClosed(c) /\ UNCHANGED crawlVars
  \/ \E c \in Callers : Replaced(c) /\ UNCHANGED crawlVars
  \/ \E c \in Callers : PagesDone(c) /\ UNCHANGED crawlVars

SpecRetire == InitRetire /\ [][NextRetire]_vars

\* C22: a release that retires an instance and leaves fewer than
\* minInstances tracked instances goes on to create a replacement and puts
\* it on the idle list, and no acquire() is served (returns a browser) while
\* the pool tracks fewer than minInstances instances.
C22_Original ==
  [][\A c \in Callers :
       /\ ppc[c] = "retireClose" /\ ppc'[c] # "retireClose"
            /\ Cardinality(pool') < minInstances
            => ppc'[c] = "replace"
       /\ ppc[c] = "replace" /\ ppc'[c] # "replace"
            => /\ Cardinality(pool') = Cardinality(pool) + 1
               /\ Len(available') = Len(available) + 1
               /\ available'[Len(available')] \in pool' \ pool
       /\ ppc[c] # "holding" /\ ppc'[c] = "holding"
            => Cardinality(pool') >= minInstances]_vars

\* ------------------------------------------------------------------------
\* The crawler: EcForceOrderCrawler.execute on top of BaseCrawler, called
\* by OrderController.  An execution has two threads of control: execute()
\* itself, suspended in circuitBreaker.execute and then in closeBrowser, and
\* the work it passed to the breaker, which Promise.race leaves running
\* when the timer wins.
\* ------------------------------------------------------------------------
\* The executions in flight; the pool they share is configured with
\* MaxInstancesCrawl instances, and the clock stops at MaxTimeCrawl.
Executions == {"c1", "c2"}
MaxInstancesCrawl == 1
MaxTimeCrawl == 2

\* A browser launched by _launchBrowser, outside the pool.
Standalone == -1

\* The awaits of the work at which it is pending.
Pending == {"acquire", "launch", "newPage", "setViewport", "run"}

\* Instance i is idle or lent to another caller.
GivenBack(c, i) ==
  /\ i \in pool
  /\ i \in Idle \/ \E d \in Callers \ {c} : held[d] = i

\* The browser behind a pending call still answers on c's page.
PageAnswers(c) ==
  IF winst[c] \in Instances
  THEN inst[winst[c]].connected /\ c \in openPages[winst[c]]
  ELSE winst[c] = Standalone

\* initBrowser, lines 422-435: pool.acquire() has returned; this.browser
\* and this.pooledBrowser are set and browser.newPage() is called.
InitBrowserResumes(c) ==
  /\ browser' = [browser EXCEPT ![c] = held'[c]]
  /\ pooledBrowser' = [pooledBrowser EXCEPT ![c] = TRUE]
  /\ winst' = [winst EXCEPT ![c] = held'[c]]
  /\ wpc' = [wpc EXCEPT ![c] = "newPage"]
  /\ UNCHANGED <<mpc, page, misused, flowVars, svc>>

\* closeBrowser, lines 515-521: release / close has returned or thrown; the
\* fields are cleared, and execute() or the controller goes on.
CloseBrowserEnds(c) ==
  /\ browser' = [browser EXCEPT ![c] = None]
  /\ page' = [page EXCEPT ![c] = None]
  /\ pooledBrowser' = [pooledBrowser EXCEPT ![c] = FALSE]
  /\ mpc' = [mpc EXCEPT ![c] = IF @ \in {"execute", "closing"} THEN "returned" ELSE "done"]
  /\ UNCHANGED <<wpc, winst, misused, flowVars, svc>>

\* What a step of the pool means to the execution whose call it belongs to:
\* the continuation of an await runs in the same turn as its resolution.
Link(c) ==
  IF ppc[c] # "holding" /\ ppc'[c] = "holding" THEN InitBrowserResumes(c)
  ELSE IF ppc[c] # "idle" /\ ppc'[c] = "idle" THEN CloseBrowserEnds(c)
  ELSE UNCHANGED crawlVars

\* OrderController.createOrder calls crawler.execute(), which enters the
\* breaker.
CrawlCall(c) ==
  /\ mpc[c] = "execute"
  /\ calls[c] = 0
  /\ ExecGetState(c)
  /\ calls' = [calls EXCEPT ![c] = 1]

\* Mutant of WorkBegin: initBrowser runs as soon as execute() is called,
\* before the breaker has decided.
WorkBegin_Ungated(c) ==
  /\ calls[c] = 1
  /\ cpc[c] # "idle"
  /\ wpc[c] = "none"
  /\ IF initialized
     THEN /\ AcquireCall(c)
          /\ IF ppc'[c] = "holding" THEN InitBrowserResumes(c)
             ELSE /\ wpc' = [wpc EXCEPT ![c] = "acquire"]
                  /\ UNCHANGED <<mpc, browser, page, pooledBrowser, winst, misused, flowVars, svc>>
     ELSE /\ wpc' = [wpc EXCEPT ![c] = "launch"]
          /\ UNCHANGED <<mpc, browser, page, pooledBrowser, winst, misused, flowVars, svc>>
          /\ UNCHANGED <<poolVars, cbVars>>

\* The work starts: initBrowser acquires from an initialized pool, and
\* launches a browser of its own otherwise.
WorkBegin(c) ==
  /\ cpc[c] = "work"
  /\ wpc[c] = "none"
  /\ IF initialized
     THEN /\ AcquireCall(c)
          /\ IF ppc'[c] = "holding" THEN InitBrowserResumes(c)
             ELSE /\ wpc' = [wpc EXCEPT ![c] = "acquire"]
                  /\ UNCHANGED <<mpc, browser, page, pooledBrowser, winst, misused, flowVars, svc>>
     ELSE /\ wpc' = [wpc EXCEPT ![c] = "launch"]
          /\ UNCHANGED <<mpc, browser, page, pooledBrowser, winst, misused, flowVars, svc>>
          /\ UNCHANGED <<poolVars, cbVars>>

\* initBrowser, lines 427-435: the launch of the execution's own browser
\* resolves.
OwnLaunched(c) ==
  /\ wpc[c] = "launch"
  /\ browser' = [browser EXCEPT ![c] = Standalone]
  /\ winst' = [winst EXCEPT ![c] = Standalone]
  /\ wpc' = [wpc EXCEPT ![c] = "newPage"]
  /\ UNCHANGED <<mpc, page, pooledBrowser, misused, flowVars, svc, poolVars, cbVars>>

\* initBrowser, line 435, and execute, line 148: newPage() resolves, this.page
\* is set and setViewport is called on it; on a closed browser it rejects.
NewPageDone(c) ==
  /\ wpc[c] = "newPage"
  /\ IF winst[c] = Standalone \/ inst[winst[c]].connected
     THEN /\ page' = [page EXCEPT ![c] = winst[c]]
          /\ openPages' = IF winst[c] = Standalone THEN openPages
                          ELSE [openPages EXCEPT ![winst[c]] = @ \cup {c}]
          /\ misused' = [misused EXCEPT ![c] = @ \/ GivenBack(c, winst[c])]
          /\ wpc' = [wpc EXCEPT ![c] = "setViewport"]
     ELSE /\ wpc' = [wpc EXCEPT ![c] = "threw"]
          /\ UNCHANGED <<page, openPages, misused>>
  /\ UNCHANGED <<mpc, browser, pooledBrowser, winst, flowVars, svc, cbVars>>
  /\ UNCHANGED <<cfgVars, initialized, pool, available, inUse, inst, nextId, ppc, pinst,
                 pidx, held, acquires, crashes, found, handed, spent, owed>>

\* execute, lines 148-149: setViewport resolves and run() starts its first
\* step on this.page; a null this.page or a closed page makes the work throw.
SetViewportDone(c) ==
  /\ wpc[c] = "setViewport"
  /\ IF PageAnswers(c) /\ page[c] # None
     THEN /\ misused' = [misused EXCEPT ![c] = @ \/ GivenBack(c, winst[c])]
          /\ wpc' = [wpc EXCEPT ![c] = "run"]
     ELSE /\ wpc' = [wpc EXCEPT ![c] = "threw"]
          /\ UNCHANGED misused
  /\ UNCHANGED <<mpc, browser, page, pooledBrowser, winst, flowVars, svc, poolVars, cbVars>>

\* run, lines 209-222: the order flow completes, or one of its steps throws.
RunDone(c, ok) ==
  /\ wpc[c] = "run"
  /\ ok => PageAnswers(c)
  /\ wpc' = [wpc EXCEPT ![c] = IF ok THEN "ok" ELSE "threw"]
  /\ UNCHANGED <<mpc, browser, page, pooledBrowser, winst, misused, flowVars, svc, poolVars, cbVars>>

\* Mutants of WorkOutcome: the work that rejects after the timer has won is
\* handled as a failure again; the timer does not run while the work is in
\* pool.acquire().
WorkOutcome_LateSettle(c) ==
  \/ wpc[c] = "ok" /\ WorkReturns(c)
  \/ wpc[c] = "threw" /\ WorkFails(c, "error")
  \/ wpc[c] \in Pending /\ WorkFails(c, "CIRCUIT_TIMEOUT")
  \/ /\ wpc[c] = "threw" /\ cpc[c] = "idle" /\ obs[c].recorded = 1
     /\ cpc' = [cpc EXCEPT ![c] = "incrementFailures"]
     /\ UNCHANGED <<calls, tripAt, now, store, redisUp, poolVars, crawlVars, local, replicaOf,
                    cnt, workStart, obs, hist>>

WorkOutcome_AcquireUntimed(c) ==
  \/ wpc[c] = "ok" /\ WorkReturns(c)
  \/ wpc[c] = "threw" /\ WorkFails(c, "error")
  \/ wpc[c] \in Pending \ {"acquire"} /\ WorkFails(c, "CIRCUIT_TIMEOUT")

\* The outcome of the work as the breaker sees it: Promise.race of the work
\* and the timer.
WorkOutcome(c) ==
  \/ wpc[c] = "ok" /\ WorkReturns(c)
  \/ wpc[c] = "threw" /\ WorkFails(c, "error")
  \/ wpc[c] \in Pending /\ WorkFails(c, "CIRCUIT_TIMEOUT")

\* closeBrowser, lines 502-514, called by execute's finally once the breaker
\* has returned or thrown, and again by the controller's finally.
CloseBrowser(c) ==
  /\ \/ mpc[c] = "execute" /\ calls[c] = 1 /\ cpc[c] = "idle"
     \/ mpc[c] = "returned"
  /\ IF browser[c] = None
     THEN /\ mpc' = [mpc EXCEPT ![c] = IF @ = "execute" THEN "returned" ELSE "done"]
          /\ UNCHANGED <<wpc, browser, page, pooledBrowser, winst, misused, flowVars, svc>>
          /\ UNCHANGED <<poolVars, cbVars>>
     ELSE IF pooledBrowser[c]
     THEN /\ ReleaseCall(c)
          /\ IF ppc'[c] = "idle" THEN CloseBrowserEnds(c)
             ELSE /\ mpc' = [mpc EXCEPT ![c] =
                               IF @ = "execute" THEN "closing" ELSE "ctlClosing"]
                  /\ UNCHANGED <<wpc, browser, page, pooledBrowser, winst, misused, flowVars, svc>>
     ELSE /\ mpc' = [mpc EXCEPT ![c] = IF @ = "execute" THEN "closing" ELSE "ctlClosing"]
          /\ UNCHANGED <<wpc, browser, page, pooledBrowser, winst, misused, flowVars, svc>>
          /\ UNCHANGED <<poolVars, cbVars>>

\* closeBrowser, lines 512-521: the execution's own browser is closed.
OwnClosed(c) ==
  /\ mpc[c] \in {"closing", "ctlClosing"}
  /\ browser[c] = Standalone
  /\ CloseBrowserEnds(c)
  /\ UNCHANGED <<poolVars, cbVars>>

\* The steps of the pool inside an execution's acquire() or release().
CrawlPoolStep(c) ==
  \/ AcquireCreated(c) /\ Link(c)
  \/ Poll(c) /\ Link(c)
  \/ RemoveClosed(c) /\ Link(c)
  \/ Recreated(c) /\ Link(c)
  \/ RetireClosed(c) /\ Link(c)
  \/ Replaced(c) /\ Link(c)
  \/ PagesDone(c) /\ Link(c)
  \/ PagesFails(c) /\ Link(c)

\* Every step of execution c after the controller's call.
CrawlStep(c) ==
  \/ BreakerStep(c)
  \/ WorkOutcome(c)
  \/ WorkBegin(c)
  \/ OwnLaunched(c)
  \/ NewPageDone(c)
  \/ SetViewportDone(c)
  \/ \E ok \in BOOLEAN : RunDone(c, ok)
  \/ CloseBrowser(c)
  \/ OwnClosed(c)
  \/ CrawlPoolStep(c)

\* The breaker invokes the work in the turn in which it starts the timer:
\* no time passes between the two.
CrawlTick ==
  /\ \A c \in Executions : cpc[c] = "work" => wpc[c] # "none"
  /\ Tick(MaxTimeCrawl)

\* The breaker at startup, or OPEN since the threshold was reached more
\* than resetTimeout ago: the next key has expired, the others have not.
BreakerAtStart(opened) ==
  /\ now = 1
  /\ store = IF ~opened THEN [k \in Keys |-> NoKey(k)]
             ELSE [[k \in Keys |-> NoKey(k)] EXCEPT
                     !["state"] = [has |-> TRUE, val |-> "OPEN", vol |-> TRUE,
                                   exp |-> now + STATE_TTL - RESET_TIMEOUT],
                     !["failures"] = [has |-> TRUE, val |-> FAILURE_THRESHOLD, vol |-> TRUE,
                                      exp |-> now + FAILURES_TTL - RESET_TIMEOUT]]
  /\ local = [r \in Replicas |->
               IF opened /\ r = "r1"
               THEN [NewBreaker EXCEPT !.localState = "OPEN", !.lastError = "error",
                                       !.localFailureCount = FAILURE_THRESHOLD]
               ELSE NewBreaker]
  /\ cpc = [c \in Callers |-> "idle"]
  /\ cnt = [c \in Callers |-> 0]
  /\ workStart = [c \in Callers |-> 0]
  /\ obs = [c \in Callers |-> NoObs]
  /\ calls = [c \in Callers |-> 0]
  /\ tripAt = 0
  /\ hist = [NoHist EXCEPT !.on = FALSE]
  /\ replicaOf = [c \in Callers |-> "r1"]
  /\ redisUp = [r \in Replicas |-> TRUE]

\* ------------------------------------------------------------------------
\* SpecCrawler: two order requests on one replica.  startServer has failed
\* to initialize the pool and the service runs without it, or the pool is
\* initialized, its instance fresh or, later in the replica's life, used
\* MAX_USAGE_COUNT times with the breaker open.  Every await of an execution
\* resolves in the end.
\* ------------------------------------------------------------------------
InitCrawler ==
  /\ NoCrawl
  /\ PoolConfig(MaxInstancesCrawl)
  /\ \/ BreakerAtStart(FALSE) /\ NewPool
     \/ BreakerAtStart(FALSE) /\ StartedPool(0, TRUE)
     \/ BreakerAtStart(TRUE) /\ StartedPool(MAX_USAGE_COUNT, TRUE)

NextCrawler ==
  \/ \E c \in Executions : CrawlCall(c)
  \/ \E c \in Executions : CrawlStep(c)
  \/ \E i \in Instances : Crash(i) /\ UNCHANGED crawlVars
  \/ CrawlTick

SpecCrawler ==
  /\ InitCrawler
  /\ [][NextCrawler]_vars
  /\ \A c \in Executions : WF_vars(CrawlCall(c) \/ CrawlStep(c))

\* C6: every pool instance an execution acquired is eventually released by
\* that execution, whatever the outcome of the work; none stays lent to an
\* execution for ever.
C6_Original == \A c \in Executions : (ppc[c] = "holding") ~> (ppc[c] # "holding")

\* The browsers that are running for crawler executions: the connected
\* instances of the pool and the browsers executions launched themselves.
LiveBrowsers ==
  Cardinality({i \in pool : inst[i].connected})
    + Cardinality({c \in Executions : browser[c] = Standalone})

\* C34: the browsers live at one time for crawler executions never exceed
\* maxInstances, also where the service started without a pool.
C34_Original == LiveBrowsers <= maxInstances

\* C7: the work of an execution starts no step on an instance that has been
\* returned to the idle list or lent to another caller.
C7_Original == \A c \in Executions : ~misused[c]

\* The abandoned work of execution c has settled after its timer fired.
SettledLate(c) == obs[c].err = "CIRCUIT_TIMEOUT" /\ wpc[c] \in {"ok", "threw"}

\* C15: a work that does not settle makes execute() fail with
\* CIRCUIT_TIMEOUT when the timeout has elapsed, and that execution
\* increments the failure counter exactly once, also where the abandoned
\* work resolves or rejects later.
C15_TimeoutCountsOnce ==
  \A c \in Executions :
    /\ cpc[c] = "work" /\ wpc[c] \in Pending /\ now >= workStart[c] + TIMEOUT
         => ENABLED WorkOutcome(c)
    /\ calls[c] = 1 /\ cpc[c] = "idle" /\ wpc[c] \in Pending
         => obs[c].result = "CIRCUIT_TIMEOUT"
    /\ obs[c].err = "CIRCUIT_TIMEOUT"
         => /\ obs[c].recorded <= 1
            /\ cpc[c] = "idle" => obs[c].result = "CIRCUIT_TIMEOUT" /\ obs[c].recorded = 1

\* C15's case: the timer fired, the failure was counted once and execute()
\* threw CIRCUIT_TIMEOUT; the abandoned work has settled since.
C15_Witness ==
  \E c \in Executions :
    /\ SettledLate(c)
    /\ wpc[c] = "threw"
    /\ cpc[c] = "idle"
    /\ obs[c].result = "CIRCUIT_TIMEOUT"
    /\ getFailureCount("r1") = 1

\* C16: an execution that the breaker rejects with CIRCUIT_OPEN has not
\* called pool.acquire: its work never started, it holds and held no
\* instance, and no call of the pool is or was made in its name.
C16_OpenCostsNoCapacity ==
  \A c \in Executions :
    obs[c].result = "CIRCUIT_OPEN"
      => /\ wpc[c] = "none"
         /\ ppc[c] = "idle"
         /\ held[c] = None /\ pinst[c] = None /\ handed[c].inst = None
         /\ browser[c] = None /\ page[c] = None /\ ~pooledBrowser[c]
         /\ \A i \in Instances : c \notin openPages[i]

\* C16's case: an execution was rejected with CIRCUIT_OPEN and has returned
\* to its controller while the pool's only instance is idle.
C16_Witness ==
  \E c \in Executions :
    /\ obs[c].result = "CIRCUIT_OPEN"
    /\ mpc[c] = "done"
    /\ initialized
    /\ Idle = pool /\ pool # {} /\ inUse = {}

\* C17: with the pool exhausted and the work blocked in pool.acquire, the
\* breaker's timer runs: execute() ends with CIRCUIT_TIMEOUT when the
\* timeout has elapsed, and the outcome is recorded as one failure.
C17_PoolWaitTimesOut ==
  \A c \in Executions :
    /\ cpc[c] = "work" /\ ppc[c] = "wait"
         => /\ wpc[c] = "acquire"
            /\ workStart[c] > 0
            /\ now >= workStart[c] + TIMEOUT => ENABLED WorkOutcome(c)
    /\ calls[c] = 1 /\ cpc[c] # "work" /\ ppc[c] = "wait"
         => /\ obs[c].err = "CIRCUIT_TIMEOUT"
            /\ obs[c].recorded <= 1
            /\ cpc[c] = "idle" => obs[c].result = "CIRCUIT_TIMEOUT" /\ obs[c].recorded = 1

\* C17's case: an execution still blocked in pool.acquire has ended with
\* CIRCUIT_TIMEOUT, counted as one failure.
C17_Witness ==
  \E c \in Executions :
    /\ ppc[c] = "wait"
    /\ wpc[c] = "acquire"
    /\ cpc[c] = "idle"
    /\ obs[c].result = "CIRCUIT_TIMEOUT"
    /\ obs[c].recorded = 1
    /\ Cardinality(inUse) = maxInstances

\* ------------------------------------------------------------------------
\* CircuitBreaker.forceClose and getStatus
\* ------------------------------------------------------------------------
\* forceClose() is called: const oldState = await this.getState()
ForceCloseCall(c) ==
  /\ cpc[c] = "idle"
  /\ calls[c] < MaxCallsCB
  /\ calls' = [calls EXCEPT ![c] = @ + 1]
  /\ cpc' = [cpc EXCEPT ![c] = "forceSetClosed"]
  /\ obs' = [obs EXCEPT ![c] = NoObs]
  /\ UNCHANGED <<tripAt, now, store, redisUp, poolVars, crawlVars, local, replicaOf, cnt,
                 workStart, hist>>

\* forceClose: await setState(CLOSED); await resetFailures(); await
\* resetSuccess(); it returns.
ForceCloseStep(c) ==
  LET r == replicaOf[c]
  IN /\ \/ /\ cpc[c] = "forceSetClosed"
           /\ setState(c, "CLOSED")
           /\ cpc' = [cpc EXCEPT ![c] = "forceResetFailures"]
           /\ UNCHANGED obs
        \/ /\ cpc[c] = "forceResetFailures"
           /\ local' = [local EXCEPT ![r].localFailureCount = 0]
           /\ store' = IF redisUp[r] THEN RedisDel(store, "failures") ELSE store
           /\ cpc' = [cpc EXCEPT ![c] = "forceResetSuccess"]
           /\ UNCHANGED obs
        \/ /\ cpc[c] = "forceResetSuccess"
           /\ resetSuccess(c)
           /\ cpc' = [cpc EXCEPT ![c] = "idle"]
           /\ obs' = Finish(c, "closed")
     /\ UNCHANGED <<calls, tripAt, now, redisUp, poolVars, crawlVars, replicaOf, cnt,
                    workStart, hist>>

\* getStatus(): the three reads it returns to its caller
getStatus(r) ==
  [state |-> getState(r), failureCount |-> getFailureCount(r),
   nextAttempt |-> getNextAttempt(r), lastError |-> local[r].lastError]

\* ------------------------------------------------------------------------
\* SpecFlaky: two callers of one replica, their calls interleaved at every
\* Redis command, and the connection to Redis lost and found again at any
\* moment.  The run starts with a new breaker, or with the circuit OPEN and
\* its nextAttempt reached.
\* ------------------------------------------------------------------------
\* Each caller makes at most MaxCallsFlaky calls.
MaxCallsFlaky == 1

InitFlaky ==
  /\ NoCrawl
  /\ PoolConfig(MaxInstancesCfg)
  /\ NewPool
  /\ \E opened \in BOOLEAN : BreakerAtStart(opened)

NextFlaky ==
  \/ \E c \in {"c1", "c2"} : calls[c] < MaxCallsFlaky /\ CallCB(c)
  \/ \E c \in {"c1", "c2"} : ExecuteStep(c)
  \/ \E c \in {"c1", "c2"} : calls[c] < MaxCallsFlaky /\ ForceCloseCall(c)
  \/ \E c \in {"c1", "c2"} : ForceCloseStep(c)
  \/ StoreFails("r1")
  \/ StoreRecovers("r1")
  \/ Tick(MaxTimeCB)

SpecFlaky == InitFlaky /\ [][NextFlaky]_vars

\* C13: no rejected Redis command makes execute(), getStatus() or
\* forceClose() throw: execute() ends with the outcome of its work (or with
\* CIRCUIT_OPEN, its work not run), forceClose() returns, and getStatus()
\* returns a status, the local copy standing in where Redis does not answer.
C13_StoreErrorsContained ==
  /\ \A c \in Callers :
       /\ obs[c].result \in {"none", "ok", "error", "CIRCUIT_TIMEOUT", "CIRCUIT_OPEN", "closed"}
       /\ obs[c].result \in {"error", "CIRCUIT_TIMEOUT"} => obs[c].err = obs[c].result
       /\ obs[c].result \in {"ok", "closed"} => obs[c].err = "none"
       /\ obs[c].result = "CIRCUIT_OPEN" => obs[c].err = "none" /\ obs[c].recorded = 0
  /\ \A r \in Replicas :
       /\ getStatus(r).state \in {"CLOSED", "OPEN", "HALF_OPEN"}
       /\ getStatus(r).failureCount >= 0
       /\ ~redisUp[r] => getStatus(r).state = local[r].localState

\* C13's case: incrementFailures had its INCR answered and its EXPIRE
\* rejected, and the call ended with the error of its work.
C13_Witness ==
  \E c \in Callers :
    /\ cpc[c] = "idle"
    /\ obs[c].result = "error"
    /\ obs[c].recorded = 1
    /\ ~redisUp[replicaOf[c]]
    /\ store["failures"].has /\ ~store["failures"].vol

\* C20: in every reachable state of the store, the states reached when a
\* replica loses its connection between two commands included, every key
\* the breaker has written carries an expiry, so that none persists for
\* ever.  Stated for the states in which no call is between two commands,
\* where a key without expiry stays as it is.
C20_Original ==
  (\A c \in Callers : cpc[c] = "idle")
    => \A k \in Keys : store[k].has => store[k].vol

\* ------------------------------------------------------------------------
\* SpecProbe: three callers of one replica, Redis reachable, one call each,
\* the circuit OPEN with its nextAttempt reached when the run starts.
\* ------------------------------------------------------------------------
InitProbe ==
  /\ NoCrawl
  /\ PoolConfig(MaxInstancesCfg)
  /\ NewPool
  /\ BreakerAtStart(TRUE)

NextProbe ==
  \/ \E c \in Callers : calls[c] < MaxCallsFlaky /\ CallCB(c)
  \/ \E c \in Callers : ExecuteStep(c)
  \/ Tick(MaxTimeCB)

SpecProbe == InitProbe /\ [][NextProbe]_vars

\* C19: while the circuit is HALF_OPEN the number of executions of the
\* wrapped work admitted before it leaves HALF_OPEN is bounded by a fixed
\* number, whatever the number of callers: here by successThreshold, the
\* number of probes the breaker needs to close.
C19_Original ==
  StoreState = "HALF_OPEN"
    => Cardinality({c \in Callers : cpc[c] = "work"}) <= SUCCESS_THRESHOLD

\* C29: whenever closeBrowser() returns, to execute() or to the controller,
\* this.browser and this.page are null and this.pooledBrowser is false.
C29_Original ==
  [][\A c \in Executions :
       mpc'[c] # mpc[c] /\ mpc'[c] \in {"returned", "done"}
         => browser'[c] = None /\ page'[c] = None /\ ~pooledBrowser'[c]]_vars

\* ------------------------------------------------------------------------
\* SpecSilent: one caller of one replica whose Redis may stop answering.
\* The work settles or the breaker's timer fires, and a command Redis
\* rejects (connection lost) fails at once into the local fallback, however
\* often the connection comes and goes; but no timer runs on a command that
\* was sent to a reachable Redis, so nothing says that its await ever
\* resolves.
\* ------------------------------------------------------------------------
InitSilent == InitFlaky

NextSilent ==
  \/ CallCB("c1")
  \/ ExecuteStep("c1")
  \/ StoreFails("r1")
  \/ StoreRecovers("r1")
  \/ Tick(MaxTimeCB)

SpecSilent ==
  /\ InitSilent
  /\ [][NextSilent]_vars
  /\ WF_vars(WorkReturns("c1") \/ \E err \in {"error", "CIRCUIT_TIMEOUT"} : WorkFails("c1", err))
  /\ SF_vars(~redisUp["r1"] /\ BreakerStep("c1"))

\* C30: execute() returns or throws in the end, also where Redis does not
\* answer one of its commands.
C30_Original == (cpc["c1"] # "idle") ~> (cpc["c1"] = "idle")

\* ------------------------------------------------------------------------
\* BaseCrawler.withRetry: fn is awaited inside a for loop that counts the
\* attempts from 1; an attempt that rejects is remembered in lastError and
\* followed by sleep(delayMs) unless it was the last.  The record of a call
\* also keeps what the call did: the fn() invocations, their outcomes in
\* order, the sleeps and the time slept.
\* ------------------------------------------------------------------------
\* config.crawler.maxRetries is parseInt(CRAWLER_MAX_RETRIES) || 3: any
\* integer but 0; a caller may pass 0 itself.  NegAttemptsCfg is how far
\* below zero the modelled maxAttempts range.
NegAttemptsCfg == 1
MaxAttemptsCfg == 3
Attempts == (0 - NegAttemptsCfg) .. MaxAttemptsCfg
Delays == {1, 2}
FnErrors == {"e1", "e2"}
FnValues == {"v1", "v2"}

\* The variables of an execution outside its workflow.
crawlCore == <<mpc, wpc, browser, page, pooledBrowser, winst, misused>>

\* Mutant of Caught: the catch keeps the first error.
Caught_First(lastError, error) == IF lastError = Undefined THEN error ELSE lastError

\* line 783: lastError = error.
Caught(lastError, error) == error

\* Mutant of SleepsBefore: the sleep follows every failed attempt.
SleepsBefore_Always(attempt, maxAttempts) == TRUE

\* line 785: if (attempt < maxAttempts) await this.sleep(delayMs).
SleepsBefore(attempt, maxAttempts) == attempt < maxAttempts

\* lines 774-781: withRetry(fn, maxAttempts, delayMs) enters the loop and
\* invokes fn; a loop that has no iteration falls through to the throw.
Retrying(maxAttempts, delayMs) ==
  IF 1 <= maxAttempts
  THEN [NoRetry EXCEPT !.pc = "fn", !.attempt = 1, !.maxAttempts = maxAttempts,
                       !.delayMs = delayMs, !.invoked = 1]
  ELSE [NoRetry EXCEPT !.pc = "threw", !.attempt = 1, !.maxAttempts = maxAttempts,
                       !.delayMs = delayMs]

\* line 781: fn() resolves and withRetry returns its value.
Resolved(r, v) ==
  [r EXCEPT !.pc = "returned", !.result = v, !.settled = Append(@, <<"ok", v>>)]

\* lines 782-788: fn() rejects; the error is kept, and the call sleeps or,
\* the loop being over, throws lastError.
Rejected(r, e) ==
  LET caught == Caught(r.lastError, e) IN
  IF SleepsBefore(r.attempt, r.maxAttempts)
  THEN [r EXCEPT !.pc = "sleep", !.lastError = caught, !.settled = Append(@, <<"err", e>>)]
  ELSE IF r.attempt + 1 <= r.maxAttempts
  THEN [r EXCEPT !.pc = "fn", !.attempt = @ + 1, !.invoked = @ + 1,
                 !.lastError = caught, !.settled = Append(@, <<"err", e>>)]
  ELSE [r EXCEPT !.pc = "threw", !.attempt = @ + 1, !.lastError = caught, !.thrown = caught,
                 !.settled = Append(@, <<"err", e>>)]

\* lines 785 and 780-781: the sleep is over, the loop counts the next
\* attempt and invokes fn again, or is over and throws lastError.
Slept(r) ==
  IF r.attempt + 1 <= r.maxAttempts
  THEN [r EXCEPT !.pc = "fn", !.attempt = @ + 1, !.invoked = @ + 1,
                 !.slept = @ + 1, !.waited = @ + r.delayMs]
  ELSE [r EXCEPT !.pc = "threw", !.attempt = @ + 1, !.thrown = r.lastError,
                 !.slept = @ + 1, !.waited = @ + r.delayMs]

\* Execution c is inside a withRetry call.
InRetry(c) == retry[c].pc \in {"fn", "sleep"}

withRetry(c, maxAttempts, delayMs) ==
  /\ ~InRetry(c)
  /\ retry' = [retry EXCEPT ![c] = Retrying(maxAttempts, delayMs)]
  /\ UNCHANGED <<click, rpc, submits, svc, crawlCore, poolVars, cbVars>>

FnResolves(c, v) ==
  /\ retry[c].pc = "fn"
  /\ retry' = [retry EXCEPT ![c] = Resolved(@, v)]
  /\ UNCHANGED <<click, rpc, submits, svc, crawlCore, poolVars, cbVars>>

FnRejects(c, e) ==
  /\ retry[c].pc = "fn"
  /\ retry' = [retry EXCEPT ![c] = Rejected(@, e)]
  /\ UNCHANGED <<click, rpc, submits, svc, crawlCore, poolVars, cbVars>>

SleepDone(c) ==
  /\ retry[c].pc = "sleep"
  /\ retry' = [retry EXCEPT ![c] = Slept(@)]
  /\ UNCHANGED <<click, rpc, submits, svc, crawlCore, poolVars, cbVars>>

\* ------------------------------------------------------------------------
\* SpecRetry: two executions call withRetry with any attempt count and
\* delay, one call after another; every fn() resolves or rejects.
\* ------------------------------------------------------------------------
InitRetry ==
  /\ NoCrawl
  /\ PoolConfig(MaxInstancesCrawl)
  /\ NewPool
  /\ BreakerAtStart(FALSE)

NextRetry ==
  \/ \E c \in Executions, n \in Attempts, d \in Delays : withRetry(c, n, d)
  \/ \E c \in Executions, v \in FnValues : FnResolves(c, v)
  \/ \E c \in Executions, e \in FnErrors : FnRejects(c, e)
  \/ \E c \in Executions : SleepDone(c)

SpecRetry == InitRetry /\ [][NextRetry]_vars

\* The outcomes of the fn() invocations of a call that were errors.
AllErrors(q) == \A k \in 1 .. Len(q) : q[k][1] = "err"

\* What C31 says of a withRetry call in the state r.
RetryContract(r) ==
  /\ r.invoked <= r.maxAttempts
  /\ Len(r.settled) <= r.invoked
  /\ r.pc = "sleep" => Len(r.settled) < r.maxAttempts
  /\ r.slept <= Len(r.settled) /\ r.waited = r.slept * r.delayMs
  /\ r.pc = "returned"
       => /\ Len(r.settled) = r.invoked
          /\ r.settled[r.invoked] = <<"ok", r.result>>
          /\ AllErrors(SubSeq(r.settled, 1, r.invoked - 1))
          /\ r.slept = r.invoked - 1
  /\ r.pc = "threw"
       => /\ r.invoked = r.maxAttempts /\ Len(r.settled) = r.maxAttempts
          /\ AllErrors(r.settled)
          /\ r.settled # <<>>
          /\ r.thrown = r.settled[Len(r.settled)][2]
          /\ r.slept = r.maxAttempts - 1

FallbackOutcomes == {"clicked", "absent", "rejected"}

\* lines 587-590: the loop is entered, or has no iteration and the fallback
\* is evaluated at once.
Clicking(maxRetries) ==
  [NoClick EXCEPT !.pc = IF 1 <= maxRetries THEN "attempt" ELSE "fallback",
                  !.attempt = 1, !.maxRetries = maxRetries]

\* lines 590-598: element.click() resolves and clickElement returns.
Clicked(k) == [k EXCEPT !.pc = "returned", !.clicks = @ + 1]

\* lines 599-605: an attempt throws before its click; a sleep follows unless
\* it was the last attempt, and then the fallback is evaluated.
ClickFailed(k, e) ==
  [k EXCEPT !.pc = IF k.attempt < k.maxRetries THEN "sleep" ELSE "fallback",
            !.attempt = IF k.attempt < k.maxRetries THEN @ ELSE @ + 1,
            !.lastError = e, !.failed = @ + 1]

\* line 604 and 590: the sleep is over and the next attempt starts.
ClickSlept(k) == [k EXCEPT !.pc = "attempt", !.attempt = @ + 1]

\* lines 608-625: the fallback's evaluate resolves and clickElement
\* returns, or it rejects: handleError(lastError) and the CrawlerError read
\* lastError.message, a TypeError where no attempt was made.
FellBack(k, out) ==
  IF out = "clicked" THEN [k EXCEPT !.pc = "returned", !.clicks = @ + 1]
  ELSE IF out = "absent" THEN [k EXCEPT !.pc = "returned"]
  ELSE [k EXCEPT !.pc = "threw",
                 !.thrown = IF k.lastError = Undefined THEN "TypeError"
                            ELSE "ELEMENT_INTERACTION_FAILED"]

\* ------------------------------------------------------------------------
\* EcForceOrderCrawler.run inside the work passed to the breaker: login and
\* fillOrderForm under withRetry, navigateToOrderForm, submitAndConfirmOrder
\* (its first click made by clickElement) and extractOrderDetails.  A step
\* succeeds only on a page that still answers.
\* ------------------------------------------------------------------------
\* config.crawler.maxRetries and retryDelayMs as the workflow runs with.
MaxRetriesCfg == 2
RetryDelayCfg == 1

\* this.page is set and its browser answers.
Alive(c) == page[c] # None /\ PageAnswers(c)

\* The steps of run() made under withRetry.
Retried == {"login", "fill"}

\* Mutant of AfterFailure: submitAndConfirmOrder is run again when it throws.
AfterFailure_Resubmits(step) == IF step = "confirm" THEN "submit" ELSE "failed"

\* run, lines 209-222: a step that throws ends run(); nothing catches it.
AfterFailure(step) == "failed"

\* One step of run() ends: the work goes on with `next`, or settles.
Advance(c, next) ==
  /\ rpc' = [rpc EXCEPT ![c] = next]
  /\ wpc' = [wpc EXCEPT ![c] = IF next = "failed" THEN "threw"
                                ELSE IF next = "done" THEN "ok" ELSE @]
  /\ submits' = [submits EXCEPT ![c] = IF next = "submit" THEN @ + 1 ELSE @]

\* execute, lines 148-149, and run, line 211: setViewport resolves and run()
\* calls withRetry(() => this.login()).
SetViewportRuns(c) ==
  /\ wpc[c] = "setViewport"
  /\ rpc[c] = "none"
  /\ IF Alive(c)
     THEN /\ misused' = [misused EXCEPT ![c] = @ \/ GivenBack(c, winst[c])]
          /\ wpc' = [wpc EXCEPT ![c] = "run"]
          /\ rpc' = [rpc EXCEPT ![c] = "login"]
          /\ retry' = [retry EXCEPT ![c] = Retrying(MaxRetriesCfg, RetryDelayCfg)]
     ELSE /\ wpc' = [wpc EXCEPT ![c] = "threw"]
          /\ UNCHANGED <<misused, rpc, retry>>
  /\ UNCHANGED <<click, submits, svc, mpc, browser, page, pooledBrowser, winst, poolVars, cbVars>>

\* run, lines 211-217: login() or fillOrderForm() settles inside withRetry;
\* when withRetry returns, run() calls the next step, and when it throws,
\* run() throws.
RetriedSettles(c, ok, e) ==
  /\ wpc[c] = "run"
  /\ rpc[c] \in Retried
  /\ retry[c].pc = "fn"
  /\ ok => Alive(c)
  /\ LET r == IF ok THEN Resolved(retry[c], "v1") ELSE Rejected(retry[c], e)
     IN /\ retry' = [retry EXCEPT ![c] = r]
        /\ Advance(c, IF r.pc = "returned"
                      THEN (IF rpc[c] = "login" THEN "navigate" ELSE "submit")
                      ELSE IF r.pc = "threw" THEN AfterFailure(rpc[c]) ELSE rpc[c])
  /\ UNCHANGED <<click, mpc, browser, page, pooledBrowser, winst, misused, svc, poolVars, cbVars>>

\* withRetry's sleep between two attempts of login() or fillOrderForm().
RetriedSleepDone(c) ==
  /\ wpc[c] = "run"
  /\ rpc[c] \in Retried
  /\ retry[c].pc = "sleep"
  /\ LET r == Slept(retry[c])
     IN /\ retry' = [retry EXCEPT ![c] = r]
        /\ Advance(c, IF r.pc = "threw" THEN AfterFailure(rpc[c]) ELSE rpc[c])
  /\ UNCHANGED <<click, mpc, browser, page, pooledBrowser, winst, misused, svc, poolVars, cbVars>>

\* run, lines 214-217: navigateToOrderForm() settles; run() calls
\* withRetry(() => this.fillOrderForm()).
NavigateDone(c, ok) ==
  /\ wpc[c] = "run"
  /\ rpc[c] = "navigate"
  /\ ok => Alive(c)
  /\ retry' = [retry EXCEPT ![c] = IF ok THEN Retrying(MaxRetriesCfg, RetryDelayCfg) ELSE @]
  /\ Advance(c, IF ok THEN "fill" ELSE AfterFailure("navigate"))
  /\ UNCHANGED <<click, mpc, browser, page, pooledBrowser, winst, misused, svc, poolVars, cbVars>>

\* submitAndConfirmOrder, lines 230-237: the screenshot and the scroll
\* settle and clickElement(submit) is called.
SubmitScrolled(c, ok) ==
  /\ wpc[c] = "run"
  /\ rpc[c] = "submit"
  /\ ok => Alive(c)
  /\ click' = [click EXCEPT ![c] = IF ok THEN Clicking(MaxRetriesCfg) ELSE @]
  /\ Advance(c, IF ok THEN "submitClick" ELSE AfterFailure("submit"))
  /\ UNCHANGED <<retry, mpc, browser, page, pooledBrowser, winst, misused, svc, poolVars, cbVars>>

\* One step of clickElement(submit) settles; submitAndConfirmOrder goes on
\* to wait for the navigation when it returns, and throws when it throws.
SubmitClicks(c, k) ==
  /\ click' = [click EXCEPT ![c] = k]
  /\ Advance(c, IF k.pc = "returned" THEN "confirm"
                ELSE IF k.pc = "threw" THEN AfterFailure("submitClick") ELSE rpc[c])
  /\ UNCHANGED <<retry, mpc, browser, page, pooledBrowser, winst, misused, svc, poolVars, cbVars>>

SubmitClickAttempt(c, ok, e) ==
  /\ wpc[c] = "run"
  /\ rpc[c] = "submitClick"
  /\ click[c].pc = "attempt"
  /\ ok => Alive(c)
  /\ SubmitClicks(c, IF ok THEN Clicked(click[c]) ELSE ClickFailed(click[c], e))

SubmitClickSleepDone(c) ==
  /\ wpc[c] = "run"
  /\ rpc[c] = "submitClick"
  /\ click[c].pc = "sleep"
  /\ SubmitClicks(c, ClickSlept(click[c]))

SubmitClickFallback(c, out) ==
  /\ wpc[c] = "run"
  /\ rpc[c] = "submitClick"
  /\ click[c].pc = "fallback"
  /\ out # "rejected" => Alive(c)
  /\ SubmitClicks(c, FellBack(click[c], out))

\* submitAndConfirmOrder, lines 238-402: the navigation, the checks of the
\* page and the confirmation settle; run() calls extractOrderDetails().
ConfirmDone(c, ok) ==
  /\ wpc[c] = "run"
  /\ rpc[c] = "confirm"
  /\ ok => Alive(c)
  /\ Advance(c, IF ok THEN "extract" ELSE AfterFailure("confirm"))
  /\ UNCHANGED <<retry, click, mpc, browser, page, pooledBrowser, winst, misused, svc, poolVars, cbVars>>

\* run, lines 221-222: extractOrderDetails() settles and run() with it.
ExtractDone(c, ok) ==
  /\ wpc[c] = "run"
  /\ rpc[c] = "extract"
  /\ ok => Alive(c)
  /\ Advance(c, IF ok THEN "done" ELSE AfterFailure("extract"))
  /\ UNCHANGED <<retry, click, mpc, browser, page, pooledBrowser, winst, misused, svc, poolVars, cbVars>>

\* One step of run() in execution c.
RunStep(c) ==
  \/ \E ok \in BOOLEAN, e \in FnErrors : RetriedSettles(c, ok, e)
  \/ RetriedSleepDone(c)
  \/ \E ok \in BOOLEAN : NavigateDone(c, ok)
  \/ \E ok \in BOOLEAN : SubmitScrolled(c, ok)
  \/ \E ok \in BOOLEAN, e \in FnErrors : SubmitClickAttempt(c, ok, e)
  \/ SubmitClickSleepDone(c)
  \/ \E out \in FallbackOutcomes : SubmitClickFallback(c, out)
  \/ \E ok \in BOOLEAN : ConfirmDone(c, ok)
  \/ \E ok \in BOOLEAN : ExtractDone(c, ok)

\* ------------------------------------------------------------------------
\* SpecFlow: one order request on a replica that runs without a pool and
\* launches a browser for it; Redis reachable; the breaker CLOSED at the
\* start, OPEN with its reset timeout over, or HALF_OPEN after a first
\* probe that succeeded.
\* ------------------------------------------------------------------------
\* The circuit is HALF_OPEN and one success short of closing.
BreakerProbing ==
  /\ now = 1
  /\ store = [[k \in Keys |-> NoKey(k)] EXCEPT
               !["state"] = [has |-> TRUE, val |-> "HALF_OPEN", vol |-> TRUE,
                             exp |-> now + STATE_TTL],
               !["success"] = [has |-> TRUE, val |-> SUCCESS_THRESHOLD - 1, vol |-> TRUE,
                               exp |-> now + SUCCESS_TTL]]
  /\ local = [r \in Replicas |->
               IF r = "r1"
               THEN [NewBreaker EXCEPT !.localState = "HALF_OPEN",
                                       !.localSuccessCount = SUCCESS_THRESHOLD - 1]
               ELSE NewBreaker]
  /\ cpc = [c \in Callers |-> "idle"]
  /\ cnt = [c \in Callers |-> 0]
  /\ workStart = [c \in Callers |-> 0]
  /\ obs = [c \in Callers |-> NoObs]
  /\ calls = [c \in Callers |-> 0]
  /\ tripAt = 0
  /\ hist = [NoHist EXCEPT !.on = FALSE]
  /\ replicaOf = [c \in Callers |-> "r1"]
  /\ redisUp = [r \in Replicas |-> TRUE]

InitFlow ==
  /\ NoCrawl
  /\ PoolConfig(MaxInstancesCrawl)
  /\ NewPool
  /\ \/ BreakerAtStart(FALSE)
     \/ BreakerAtStart(TRUE)
     \/ BreakerProbing

NextFlow ==
  \/ CrawlCall("c1")
  \/ BreakerStep("c1")
  \/ WorkOutcome("c1")
  \/ WorkBegin("c1")
  \/ OwnLaunched("c1")
  \/ NewPageDone("c1")
  \/ SetViewportRuns("c1")
  \/ RunStep("c1")
  \/ CloseBrowser("c1")
  \/ OwnClosed("c1")
  \/ CrawlTick

SpecFlow == InitFlow /\ [][NextFlow]_vars

\* The fn() invocations and click attempts execution c has made so far in
\* its current withRetry and clickElement calls.
Tries(c) == retry[c].invoked + click[c].failed + click[c].clicks

\* C32: one crawler execute() counts at most one failure with the breaker,
\* and only when its work failed or timed out; a success counts none and
\* deletes the counter; no step of run(), retried or not, touches the
\* counter, which changes only in the breaker's onFailure (by one) and
\* onSuccess (to zero).
C32_OneOutcomePerExecute ==
  /\ [](/\ obs["c1"].recorded <= 1
        /\ obs["c1"].recorded = 1 => obs["c1"].err \in {"error", "CIRCUIT_TIMEOUT"}
        /\ cpc["c1"] = "idle" /\ obs["c1"].result = "ok" => obs["c1"].recorded = 0)
  /\ [][getFailureCount("r1")' # getFailureCount("r1")
         => \/ /\ cpc["c1"] = "incrementFailures"
               /\ getFailureCount("r1")' = getFailureCount("r1") + 1
               /\ obs["c1"].recorded = 0
            \/ /\ cpc["c1"] = "resetFailures"
               /\ obs["c1"].err = "none"
               /\ getFailureCount("r1")' = 0]_vars

\* C38: clickElement returns only when an element matching the selector
\* was clicked, and otherwise throws a CrawlerError with code
\* ELEMENT_INTERACTION_FAILED.
C38_Original ==
  /\ click["c1"].pc = "returned" => click["c1"].clicks >= 1
  /\ click["c1"].pc = "threw" => click["c1"].thrown = "ELEMENT_INTERACTION_FAILED"

\* C36: within one execute() submitAndConfirmOrder is started at most once,
\* and only after fillOrderForm has passed; a step of run() that has been
\* left is not entered again, whatever withRetry repeats and whenever the
\* breaker's timer fires.
C36_SubmitsOnce ==
  /\ [](/\ submits["c1"] <= 1
        /\ rpc["c1"] \in {"submit", "submitClick", "confirm", "extract", "done"}
             => submits["c1"] = 1
        /\ rpc["c1"] \in {"none", "login", "navigate", "fill"} => submits["c1"] = 0)
  /\ [][submits'["c1"] # submits["c1"]
         => /\ rpc["c1"] = "fill" /\ rpc'["c1"] = "submit"
            /\ retry'["c1"].pc = "returned"]_vars

\* C36's case: fillOrderForm passed at its second attempt, the submission
\* was started, its clickElement used all its attempts and the step failed
\* in the confirmation; the breaker's timer had fired before.
C36_Witness ==
  /\ submits["c1"] = 1
  /\ rpc["c1"] = "failed"
  /\ retry["c1"].pc = "returned" /\ retry["c1"].invoked = 2
  /\ click["c1"].pc = "returned" /\ click["c1"].failed = MaxRetriesCfg
  /\ obs["c1"].err = "CIRCUIT_TIMEOUT"

\* C32's case: fillOrderForm failed in both attempts of its withRetry, after
\* login had passed, and execute() has thrown with the counter at one.
C32_Witness ==
  /\ rpc["c1"] = "failed"
  /\ retry["c1"].pc = "threw" /\ retry["c1"].invoked = MaxRetriesCfg /\ retry["c1"].slept = 1
  /\ Tries("c1") > 1
  /\ cpc["c1"] = "idle" /\ obs["c1"].result = "error"
  /\ obs["c1"].recorded = 1
  /\ getFailureCount("r1") = 1

\* ------------------------------------------------------------------------
\* BaseService: initInfo() on an account and request(fn) through it, as the
\* services' call() makes them: request() after `await this.initInfo()`, or
\* in the same turn as an initInfo() that is not awaited.  The record svc
\* holds account.options.ec_force_info.token (set or not), whether the
\* account has a save() function, where initInfo() and request() are, the
\* locals of request(), and what request() did: its fn() invocations, the
\* AuthenticateFail errors they raised and the signIn() calls it made.
\* ------------------------------------------------------------------------
\* How an fn() passed to request() settles.
FnOutcomes == {"ok", "AuthenticateFail", "StaleObjectError", "Error"}

\* The service leaves everything else alone.
ServiceOnly == UNCHANGED <<crawlCore, flowVars, poolVars, cbVars>>

\* request, line 80: initialHasToken, read from the account when request()
\* is called.
HasToken(v) == v.token

\* request, lines 79-88: the locals are set and fn() is invoked.
Requesting(v) ==
  [v EXCEPT !.pc = "fn", !.initialHasToken = HasToken(v), !.didSignIn = FALSE,
            !.attempt = 1, !.fnCalls = 1]

\* initInfo, lines 33-63, in a service's call(): the service is built on an
\* account that provides a token or not; without one, signIn() is called.
\* A call() that does not await initInfo() calls request() at once.
initInfo(provided, canSave, awaited) ==
  /\ svc.ipc = "new"
  /\ LET v == [NoService EXCEPT !.provided = provided, !.token = provided,
                                !.canSave = canSave, !.awaited = awaited,
                                !.ipc = IF provided THEN "done" ELSE "signIn"]
     IN svc' = IF awaited THEN v ELSE Requesting(v)
  /\ ServiceOnly

\* initInfo, lines 63-70, and _persistToken, lines 22-27: signIn() settles;
\* its token is written to the account and save() is awaited where the
\* account has one, or initInfo throws 'authenticate fail'.
InitSignedIn(ok) ==
  /\ svc.ipc = "signIn"
  /\ svc' = IF ok THEN [svc EXCEPT !.token = TRUE,
                                   !.ipc = IF svc.canSave THEN "save" ELSE "done"]
            ELSE [svc EXCEPT !.ipc = "threw"]
  /\ ServiceOnly

\* _persistToken, lines 26-30, inside initInfo: save() resolves, or rejects
\* and is logged.
InitSaved ==
  /\ svc.ipc = "save"
  /\ svc' = [svc EXCEPT !.ipc = "done"]
  /\ ServiceOnly

\* call(): request() is called when the awaited initInfo() has returned.
request ==
  /\ svc.awaited
  /\ svc.ipc = "done"
  /\ svc.pc = "idle"
  /\ svc' = Requesting(svc)
  /\ ServiceOnly

\* request, lines 88-119: fn() settles.  An AuthenticateFail ends the call
\* unless the account had no token and no sign-in was made yet; a
\* StaleObjectError is retried while attempt < 3; anything else is thrown.
FnSettles(out) ==
  /\ svc.pc = "fn"
  /\ svc' =
       IF out = "ok" THEN [svc EXCEPT !.pc = "returned"]
       ELSE IF out = "AuthenticateFail"
       THEN IF svc.initialHasToken \/ svc.didSignIn
            THEN [svc EXCEPT !.pc = "threw", !.thrown = "authenticate fail",
                             !.authFails = @ + 1]
            ELSE [svc EXCEPT !.pc = "signIn", !.signIns = @ + 1, !.authFails = @ + 1]
       ELSE IF out = "StaleObjectError" /\ svc.attempt < 3
       THEN [svc EXCEPT !.attempt = @ + 1, !.fnCalls = @ + 1]
       ELSE [svc EXCEPT !.pc = "threw", !.thrown = out]
  /\ ServiceOnly

\* request, lines 105-106 and 86-88: didSignIn is set and fn() is tried
\* again.
SignInRetries(v) ==
  [v EXCEPT !.pc = "fn", !.didSignIn = TRUE, !.attempt = @ + 1, !.fnCalls = @ + 1]

\* request, lines 100-109: the sign-in settles; its token is written to the
\* account and save() awaited where there is one, or request throws.
SignedIn(ok) ==
  /\ svc.pc = "signIn"
  /\ svc' = IF ~ok THEN [svc EXCEPT !.pc = "threw", !.thrown = "authenticate fail"]
            ELSE IF svc.canSave THEN [svc EXCEPT !.token = TRUE, !.pc = "save"]
            ELSE SignInRetries([svc EXCEPT !.token = TRUE])
  /\ ServiceOnly

\* _persistToken inside request: save() resolves, or rejects and is logged.
Saved ==
  /\ svc.pc = "save"
  /\ svc' = SignInRetries(svc)
  /\ ServiceOnly

\* ------------------------------------------------------------------------
\* SpecService: one service whose call() makes initInfo() then request(fn);
\* every call the service awaits settles, in any way.
\* ------------------------------------------------------------------------
InitService == InitRetry

NextService ==
  \/ \E provided \in BOOLEAN, canSave \in BOOLEAN, awaited \in BOOLEAN :
       initInfo(provided, canSave, awaited)
  \/ \E ok \in BOOLEAN : InitSignedIn(ok)
  \/ InitSaved
  \/ request
  \/ \E out \in FnOutcomes : FnSettles(out)
  \/ \E ok \in BOOLEAN : SignedIn(ok)
  \/ Saved

SpecService == InitService /\ [][NextService]_vars

\* C37: in a call() that awaits initInfo() and then makes request(fn): on
\* an account that provided a token an AuthenticateFail from fn triggers no
\* signIn and request throws 'authenticate fail'; on an account that
\* provided none, the first AuthenticateFail triggers one signIn and, that
\* passing, one more fn(), and a second AuthenticateFail makes request throw
\* 'authenticate fail'.
C37_Original ==
  svc.awaited
    => /\ svc.signIns <= 1 /\ svc.authFails <= 2
       /\ svc.provided => svc.signIns = 0
       /\ svc.provided /\ svc.authFails >= 1
            => svc.pc = "threw" /\ svc.thrown = "authenticate fail"
       /\ ~svc.provided /\ svc.authFails >= 1 => svc.signIns = 1
       /\ ~svc.provided /\ svc.didSignIn => svc.fnCalls >= 2
       /\ ~svc.provided /\ svc.authFails = 2
            => svc.signIns = 1 /\ svc.pc = "threw" /\ svc.thrown = "authenticate fail"

\* ------------------------------------------------------------------------
\* HealthController.checkHealthDetailed
\* ------------------------------------------------------------------------
\* BrowserPool.healthCheck: no tracked browser is disconnected and the pool
\* is not below its minimum.
healthCheck ==
  [healthy |-> /\ \A i \in pool : isConnected(inst[i])
               /\ Cardinality(pool) >= minInstances]

\* The answer of the detailed health check, given whether its trial launch
\* of a browser worked and what the GCS check found.  The breakers'
\* statuses are attached to the answer and take no part in its status.
checkHealthDetailed(launchOk, gcs) ==
  LET status == IF ~launchOk \/ gcs = "error" \/ ~healthCheck.healthy
                THEN "degraded" ELSE "healthy"
  IN [status |-> status,
      statusCode |-> IF status = "healthy" THEN 200 ELSE 503,
      circuitBreakers |-> [r \in Replicas |-> getStatus(r)]]

\* C27: while the breaker is OPEN the detailed health check answers with a
\* status other than healthy and with HTTP 503, whatever its other checks
\* find.
C27_Original ==
  \A launchOk \in BOOLEAN : \A gcs \in {"ok", "error", "not_configured"} :
    getState("r1") = "OPEN"
      => /\ checkHealthDetailed(launchOk, gcs).status # "healthy"
         /\ checkHealthDetailed(launchOk, gcs).statusCode = 503

====
